---- MODULE Spec2Model ----
(***************************************************************************)
(* A model of db-journey/migrate: the Handle engine of migrate.go (locking *)
(* scope, sequencing of files through the driver, hooks, cancellation),    *)
(* the file package's scanner and set algebra, and the driver contract of  *)
(* driver/driver.go.                                                       *)
(***************************************************************************)
EXTENDS Integers, Sequences, FiniteSets, TLC

\* ------------------------------------------------------------- bounds
\* Versions of the model are 1..MaxVersion (file.Version is a uint64).
MaxVersion == 2
\* Migrate(n) is called with n in -MaxN..MaxN.
MaxN == 2
\* The width of the int of the model (Relative takes an int).
IntBits == 3

VersionIds == 1..MaxVersion

\* ------------------------------------------------------- file package
\* A directory entry that matches the filename pattern
\* {version}_{name}.{up|down}.{ext}; the record stands for the file name.
AllFiles == [version : VersionIds, name : {"a"}, d : {"up", "down"}]
              \cup {[version |-> 1, name |-> "b", d |-> "up"]}

\* The nil *File of a MigrationFile slot.
NoFile == [version |-> 0, name |-> "", d |-> "none"]

NameRank(n) == IF n = "a" THEN 1 ELSE 2

DirRank(d) == IF d = "down" THEN 1 ELSE 2

\* Order of two file names as strings: ioutil.ReadDir returns the entries
\* sorted by file name. Versions of the model have one digit, so the order
\* of the decimal strings is the order of the numbers; "down" < "up".
FileNameLess(f, g) ==
    \/ f.version < g.version
    \/ f.version = g.version /\ NameRank(f.name) < NameRank(g.name)
    \/ f.version = g.version /\ f.name = g.name /\ DirRank(f.d) < DirRank(g.d)

RECURSIVE ReadDir(_)
ReadDir(S) ==
    IF S = {} THEN <<>>
    ELSE LET first == CHOOSE f \in S : \A g \in S \ {f} : FileNameLess(f, g)
         IN  <<first>> \o ReadDir(S \ {first})

\* Versions.Contains
Contains(versions, version) ==
    \E i \in 1..Len(versions) : versions[i] = version

\* sort.Sort(mf): ascending by Version.
RECURSIVE SortAsc(_)
SortAsc(mf) ==
    IF Len(mf) = 0 THEN <<>>
    ELSE LET i == CHOOSE i \in 1..Len(mf) :
                    \A j \in 1..Len(mf) : mf[i].Version <= mf[j].Version
         IN  <<mf[i]>> \o SortAsc(SubSeq(mf, 1, i - 1) \o SubSeq(mf, i + 1, Len(mf)))

\* sort.Sort(sort.Reverse(mf)): descending by Version.
RECURSIVE SortDesc(_)
SortDesc(mf) ==
    IF Len(mf) = 0 THEN <<>>
    ELSE LET i == CHOOSE i \in 1..Len(mf) :
                    \A j \in 1..Len(mf) : mf[i].Version >= mf[j].Version
         IN  <<mf[i]>> \o SortDesc(SubSeq(mf, 1, i - 1) \o SubSeq(mf, i + 1, Len(mf)))

\* Mutant of DuplicateAt: a second file of a pair is not noticed.
DuplicateAtNever(ioFiles) == 0

\* The first loop of ReadMigrationFiles: the index of the first entry whose
\* (version, direction) pair was already seen, 0 when there is none.
DuplicateAt(ioFiles) ==
    LET dups == {i \in 1..Len(ioFiles) :
                    \E j \in 1..(i - 1) : /\ ioFiles[j].version = ioFiles[i].version
                                          /\ ioFiles[j].d = ioFiles[i].d}
    IN  IF dups = {} THEN 0 ELSE CHOOSE i \in dups : \A k \in dups : i <= k

\* The entry the map already held for the pair of ioFiles[i].
ExistingFor(ioFiles, i) ==
    LET js == {j \in 1..(i - 1) : /\ ioFiles[j].version = ioFiles[i].version
                                  /\ ioFiles[j].d = ioFiles[i].d}
    IN  ioFiles[CHOOSE j \in js : \A k \in js : j <= k]

\* Mutant of LookFor: the file of the other direction is not looked for.
LookForNothing(tmpFiles, version, d) == NoFile

\* The inner loop over tmpFiles: the first file of the version in the
\* direction looked for, NoFile when there is none.
LookFor(tmpFiles, version, d) ==
    LET js == {j \in 1..Len(tmpFiles) : /\ tmpFiles[j].version = version
                                        /\ tmpFiles[j].d = d}
    IN  IF js = {} THEN NoFile
        ELSE tmpFiles[CHOOSE j \in js : \A k \in js : j <= k]

\* The second loop of ReadMigrationFiles: one MigrationFile per version not
\* parsed yet, in the order of tmpFiles.
RECURSIVE BuildMigrationFiles(_, _, _)
BuildMigrationFiles(tmpFiles, i, parsedVersions) ==
    IF i > Len(tmpFiles) THEN <<>>
    ELSE LET file == tmpFiles[i]
         IN  IF file.version \in parsedVersions
             THEN BuildMigrationFiles(tmpFiles, i + 1, parsedVersions)
             ELSE LET migrationFile ==
                        IF file.d = "up"
                        THEN [Version  |-> file.version,
                              UpFile   |-> file,
                              DownFile |-> LookFor(tmpFiles, file.version, "down")]
                        ELSE [Version  |-> file.version,
                              UpFile   |-> LookFor(tmpFiles, file.version, "up"),
                              DownFile |-> file]
                  IN  <<migrationFile>> \o
                      BuildMigrationFiles(tmpFiles, i + 1,
                                          parsedVersions \cup {file.version})

\* ReadMigrationFiles: [err, existing, file, files].
ReadMigrationFiles(directory) ==
    LET ioFiles == ReadDir(directory)
        dup     == DuplicateAt(ioFiles)
    IN  IF dup # 0
        THEN [err |-> "duplicate", existing |-> ExistingFor(ioFiles, dup),
              file |-> ioFiles[dup], files |-> <<>>]
        ELSE [err |-> "nil", existing |-> NoFile, file |-> NoFile,
              files |-> SortAsc(BuildMigrationFiles(ioFiles, 1, {}))]

\* The files of mf (in its order) that pass the test, as a Files slice.
RECURSIVE UpFilesNotIn(_, _)
UpFilesNotIn(mf, versions) ==
    IF Len(mf) = 0 THEN <<>>
    ELSE (IF ~Contains(versions, Head(mf).Version) /\ Head(mf).UpFile # NoFile
          THEN <<Head(mf).UpFile>> ELSE <<>>)
         \o UpFilesNotIn(Tail(mf), versions)

RECURSIVE DownFilesIn(_, _)
DownFilesIn(mf, versions) ==
    IF Len(mf) = 0 THEN <<>>
    ELSE (IF Contains(versions, Head(mf).Version) /\ Head(mf).DownFile # NoFile
          THEN <<Head(mf).DownFile>> ELSE <<>>)
         \o DownFilesIn(Tail(mf), versions)

\* Mutant of Pending: what is pending is decided by a cursor, the highest
\* applied version, and not by membership.
PendingAfterLast(mf, versions) ==
    LET last == IF Len(versions) = 0 THEN 0
                ELSE CHOOSE v \in {versions[i] : i \in 1..Len(versions)} :
                         \A i \in 1..Len(versions) : versions[i] <= v
    IN  UpFilesNotIn(SortAsc(mf), versions \o [i \in 1..last |-> i])

\* Mutant of Pending: every Up file is returned, applied or not.
PendingOfAll(mf, versions) == UpFilesNotIn(SortAsc(mf), <<>>)

\* Mutant of Pending: the collection is not sorted first.
PendingUnsorted(mf, versions) == UpFilesNotIn(mf, versions)

\* MigrationFiles.Pending
Pending(mf, versions) == UpFilesNotIn(SortAsc(mf), versions)

\* Mutant of Applied: the collection is sorted in ascending order.
AppliedAscending(mf, versions) == DownFilesIn(SortAsc(mf), versions)

\* Mutant of Applied: only the file of the highest applied version.
AppliedOnlyLast(mf, versions) ==
    LET files == DownFilesIn(SortDesc(mf), versions)
    IN  IF files = <<>> THEN <<>> ELSE <<Head(files)>>

\* Mutant of Applied: every Down file is returned, applied or not.
AppliedOfAll(mf, versions) ==
    DownFilesIn(SortDesc(mf), [i \in 1..Len(mf) |-> mf[i].Version])

\* MigrationFiles.Applied
Applied(mf, versions) == DownFilesIn(SortDesc(mf), versions)

\* The int type: two's complement of IntBits bits.
MinInt == -(2 ^ (IntBits - 1))

MaxInt == 2 ^ (IntBits - 1) - 1

\* -x of Go: the result wraps around, so that -MinInt is MinInt.
Neg(x) == ((-x - MinInt) % (2 ^ IntBits)) + MinInt

\* MigrationFiles.Relative: the value of relativeN at `files[:relativeN]`.
RelativeBound(mf, relativeN, versions) ==
    LET files == IF relativeN > 0 THEN Pending(mf, versions)
                 ELSE Applied(mf, versions)
        n     == IF relativeN > 0 THEN relativeN ELSE Neg(relativeN)
    IN  IF n > Len(files) THEN Len(files) ELSE n

\* MigrationFiles.Relative: the slice expression panics (slice bounds out of
\* range) when its bound is negative.
RelativePanics(mf, relativeN, versions) ==
    relativeN # 0 /\ RelativeBound(mf, relativeN, versions) < 0

\* MigrationFiles.Relative (the empty slice where it panics)
Relative(mf, relativeN, versions) ==
    IF relativeN = 0 THEN <<>>
    ELSE LET files == IF relativeN > 0 THEN Pending(mf, versions)
                      ELSE Applied(mf, versions)
         IN  SubSeq(files, 1, RelativeBound(mf, relativeN, versions))

\* Mutant of FileForDirection: the file of the other direction is taken
\* when the version has none of the direction asked for.
FileForDirectionEither(mf, version, d) ==
    LET is == {i \in 1..Len(mf) : mf[i].Version = version}
    IN  IF is = {} THEN NoFile
        ELSE LET f == mf[CHOOSE i \in is : \A k \in is : i <= k]
                 g == IF d = "up" THEN f.UpFile ELSE f.DownFile
             IN  IF g # NoFile THEN g
                 ELSE IF d = "up" THEN f.DownFile ELSE f.UpFile

\* getFileForDirection, for the MigrationFile of the version (NoFile when
\* the version has no MigrationFile or no file of the direction).
FileForDirection(mf, version, d) ==
    LET is == {i \in 1..Len(mf) : mf[i].Version = version}
    IN  IF is = {} THEN NoFile
        ELSE LET f == mf[CHOOSE i \in is : \A k \in is : i <= k]
             IN  IF d = "up" THEN f.UpFile ELSE f.DownFile

\* ------------------------------------------------------------- engine
VARIABLES
    dir,            \* the migrations directory: a set of file names
    applied,        \* the store's bookkeeping: the set of applied versions
    preHook,        \* Handle.preHook is not nil
    postHook,       \* Handle.postHook is not nil
    locked,         \* Handle.locked
    fatalErr,       \* Handle.fatalErr
    closed,         \* the driver's Close was called
    drvLock,        \* the advisory lock is held by this Handle's connection
    lockTask,       \* the goroutine of the latest drvLockChan call: "calling"
                    \* driver.Lock, "sending" its error, "closed" the channel
                    \* with nobody having received yet, or "none" (ended)
    ctx,            \* the context of the running operation ("none" at "idle")
    pc,             \* where the Handle's flow of control is ("done": returned)
    frames,         \* the public operations in progress, outermost first
    queue,          \* applyMigrationFiles not yet done, current file first
    err,            \* the error being returned; at "done", the result
    log,            \* the calls made by the operation so far
    op,             \* the outer operation that is running
    appliedAtCall,  \* applied when the running operation was called
    fatalAtCall,    \* fatalErr when the running operation was called
    ctxAtCall,      \* the context's state when the operation was called
    prev,           \* the operation that returned last (kept by FinishSeq)
    peer,           \* a second Handle on the same store (moved by NextTwo)
    fcall           \* a call of the file package's functions (NextFiles)

vars == <<dir, applied, preHook, postHook, locked, fatalErr, closed, drvLock,
          lockTask, ctx, pc, frames, queue, err, log, op, appliedAtCall,
          fatalAtCall, ctxAtCall, prev, peer, fcall>>

\* What no step of this Handle's operations changes.
config == <<dir, preHook, postHook, peer, fcall>>
history == <<op, appliedAtCall, fatalAtCall, ctxAtCall, prev>>

\* Errors: kind, the file being processed when it arose, and whether the
\* message the engine builds names that file's version / file name.
NilErr == [kind |-> "nil", file |-> NoFile, version |-> FALSE, filename |-> FALSE]

Error(kind) == [kind |-> kind, file |-> NoFile, version |-> FALSE, filename |-> FALSE]

\* unlock: "connection closed, this handle is no longer usable - ..."
FatalError == Error("fatal")

\* drvMigrate: "interrupted before applying version %d: %s"
InterruptedErr(f) ==
    [kind |-> "interrupted", file |-> f, version |-> TRUE, filename |-> FALSE]

\* runHookIfNotNil: "%s-hook for migration %q failed: %s" with f.FileName
HookErr(name, f) ==
    [kind |-> name, file |-> f, version |-> TRUE, filename |-> TRUE]

\* drvMigrate returns the error of drv.Migrate as it is.
DrvMigrateErr(f) ==
    [kind |-> "migrate", file |-> f, version |-> FALSE, filename |-> FALSE]

\* migrateVersion: "version %d is already applied", "version %d is not
\* applied", "no `%s` migration file for version %d"
VersionErr(kind, v) ==
    [kind |-> kind, file |-> [NoFile EXCEPT !.version = v],
     version |-> TRUE, filename |-> FALSE]

Event(call, f, ok) == [call |-> call, file |-> f, ok |-> ok]

\* The public locking operations.
Ops ==
    [name : {"Up", "Down", "Redo", "Reset", "Version", "Versions",
             "PendingMigrations"}, n : {0}, v : {0}]
    \cup [name : {"Migrate"}, n : (-MaxN)..MaxN, v : {0}]
    \cup [name : {"ApplyVersion", "RollbackVersion"}, n : {0}, v : VersionIds]

Op(name, n, v) == [name |-> name, n |-> n, v |-> v]

\* Mutant of InnerOp: the second call of Redo is Up.
InnerOpRedoUp(o, phase) ==
    IF o.name = "Redo"
    THEN (IF phase = 1 THEN Op("Migrate", -1, 0) ELSE Op("Up", 0, 0))
    ELSE (IF phase = 1 THEN Op("Down", 0, 0) ELSE Op("Up", 0, 0))

\* Mutant of InnerOp: the second call of Reset is Migrate(+1).
InnerOpResetOne(o, phase) ==
    IF o.name = "Redo"
    THEN (IF phase = 1 THEN Op("Migrate", -1, 0) ELSE Op("Migrate", 1, 0))
    ELSE (IF phase = 1 THEN Op("Down", 0, 0) ELSE Op("Migrate", 1, 0))

\* The two inner calls of Redo and of Reset.
InnerOp(o, phase) ==
    IF o.name = "Redo"
    THEN (IF phase = 1 THEN Op("Migrate", -1, 0) ELSE Op("Migrate", 1, 0))
    ELSE (IF phase = 1 THEN Op("Down", 0, 0) ELSE Op("Up", 0, 0))

Frame(o) == [op |-> o, unlock |-> "none", phase |-> 1]

Top == frames[Len(frames)]

SetTop(fr, field, value) == [fr EXCEPT ![Len(fr)][field] = value]

\* The directories the model starts from: any set of files named "a", and
\* these with the second up file of version 1 next to the first.
InitDirs ==
    {D \in SUBSET AllFiles :
        \A f \in D : f.name = "b" => [f EXCEPT !.name = "a"] \in D}

\* drv.Versions(): the applied versions, descending.
RECURSIVE DrvVersions(_)
DrvVersions(S) ==
    IF S = {} THEN <<>>
    ELSE LET max == CHOOSE v \in S : \A w \in S : w <= v
         IN  <<max>> \o DrvVersions(S \ {max})

\* drv.Version(): the highest applied version, 0 if none.
DrvVersion(S) == IF S = {} THEN 0 ELSE Head(DrvVersions(S))

\* No operation has returned yet.
NoPrev == [name |-> "none", ok |-> FALSE, before |-> {}]

\* There is no second Handle.
NoPeer == [pc |-> "none", ctx |-> "none", locked |-> FALSE, fatal |-> FALSE,
           task |-> "none", held |-> FALSE, unlock |-> "none"]

\* No function of the file package is being called on its own.
NoCall == [fn |-> "none", mf |-> <<>>, versions |-> <<>>, n |-> 0,
           arg |-> <<>>, out |-> <<>>, panic |-> FALSE]

Init ==
    /\ dir \in InitDirs
    /\ applied \in SUBSET VersionIds
    /\ preHook \in BOOLEAN
    /\ postHook \in BOOLEAN
    /\ locked = FALSE
    /\ fatalErr = NilErr
    /\ closed = FALSE
    /\ drvLock = FALSE
    /\ lockTask = "none"
    /\ ctx = "none"
    /\ pc = "idle"
    /\ frames = <<>>
    /\ queue = <<>>
    /\ err = NilErr
    /\ log = <<>>
    /\ op = Op("none", 0, 0)
    /\ appliedAtCall = applied
    /\ fatalAtCall = fatalErr
    /\ ctxAtCall = "none"
    /\ prev = NoPrev
    /\ peer = NoPeer
    /\ fcall = NoCall

\* Mutant of EnterLock: a Handle that holds the lock is handed m.unlock
\* again, so that inner operations release the lock too.
EnterLockNotReentrant(fr, lg) ==
    IF fatalErr # NilErr
    THEN /\ err' = fatalErr
         /\ pc' = "ret"
         /\ frames' = fr
         /\ log' = lg
         /\ UNCHANGED lockTask
    ELSE IF locked
    THEN /\ err' = NilErr
         /\ pc' = "body"
         /\ frames' = SetTop(fr, "unlock", "unlock")
         /\ log' = lg
         /\ UNCHANGED lockTask
    ELSE /\ err' = NilErr
         /\ pc' = "lockwait"
         /\ frames' = fr
         /\ lockTask' = "calling"
         /\ log' = Append(lg, Event("Lock", NoFile, TRUE))

\* Mutant of EnterLock: the fatal error is not looked at.
EnterLockIgnoresFatal(fr, lg) ==
    IF locked
    THEN /\ err' = NilErr
         /\ pc' = "body"
         /\ frames' = SetTop(fr, "unlock", "noop")
         /\ log' = lg
         /\ UNCHANGED lockTask
    ELSE /\ err' = NilErr
         /\ pc' = "lockwait"
         /\ frames' = fr
         /\ lockTask' = "calling"
         /\ log' = Append(lg, Event("Lock", NoFile, TRUE))

\* Handle.lock up to its select, for the frame on top of fr.
EnterLock(fr, lg) ==
    IF fatalErr # NilErr
    THEN /\ err' = fatalErr
         /\ pc' = "ret"
         /\ frames' = fr
         /\ log' = lg
         /\ UNCHANGED lockTask
    ELSE IF locked
    THEN /\ err' = NilErr
         /\ pc' = "body"
         /\ frames' = SetTop(fr, "unlock", "noop")
         /\ log' = lg
         /\ UNCHANGED lockTask
    ELSE /\ err' = NilErr
         /\ pc' = "lockwait"
         /\ frames' = fr
         /\ lockTask' = "calling"
         /\ log' = Append(lg, Event("Lock", NoFile, TRUE))

\* A public locking operation is called, with a context that may already
\* be cancelled.
Call(o, c) ==
    /\ pc = "idle"
    /\ ctx' = c
    /\ op' = o
    /\ appliedAtCall' = applied
    /\ fatalAtCall' = fatalErr
    /\ ctxAtCall' = c
    /\ queue' = <<>>
    /\ EnterLock(<<Frame(o)>>, <<>>)
    /\ UNCHANGED <<config, prev, applied, locked, fatalErr, closed, drvLock>>

\* The context of the running operation is cancelled.
Cancel ==
    /\ pc \notin {"idle", "done"}
    /\ ctx = "live"
    /\ ctx' = "cancelled"
    /\ UNCHANGED <<config, history, applied, locked, fatalErr, closed, drvLock,
                   lockTask, pc, frames, queue, err, log>>

\* drvLockChan's goroutine: driver.Lock returns.
DrvLockReturn ==
    /\ lockTask = "calling"
    /\ \E ok \in BOOLEAN :
          IF ok THEN lockTask' = "closed" /\ drvLock' = TRUE
                ELSE lockTask' = "sending" /\ UNCHANGED drvLock
    /\ UNCHANGED <<config, history, applied, locked, fatalErr, closed, ctx, pc,
                   frames, queue, err, log>>

\* Handle.lock, select: the channel was closed without an error (the
\* goroutine has ended).
LockGranted ==
    /\ pc = "lockwait"
    /\ lockTask = "closed"
    /\ lockTask' = "none"
    /\ locked' = TRUE
    /\ frames' = SetTop(frames, "unlock", "unlock")
    /\ pc' = "body"
    /\ UNCHANGED <<config, history, applied, fatalErr, closed, drvLock,
                   ctx, queue, err, log>>

\* Mutant of LockFailed: the error received from the channel is dropped and
\* the operation goes on as if the lock had been granted.
LockFailedIgnored ==
    /\ pc = "lockwait"
    /\ lockTask = "sending"
    /\ lockTask' = "none"
    /\ locked' = TRUE
    /\ frames' = SetTop(frames, "unlock", "unlock")
    /\ pc' = "body"
    /\ UNCHANGED <<config, history, applied, fatalErr, closed, drvLock,
                   ctx, queue, err, log>>

\* Handle.lock, select: the goroutine sends the error of driver.Lock (and
\* then closes the channel and ends).
LockFailed ==
    /\ pc = "lockwait"
    /\ lockTask = "sending"
    /\ lockTask' = "none"
    /\ err' = Error("lock")
    /\ pc' = "ret"
    /\ UNCHANGED <<config, history, applied, locked, fatalErr, closed, drvLock,
                   ctx, frames, queue, log>>

\* Mutant of LockCancelled: the flag is set before the select.
LockCancelledButFlagged ==
    /\ pc = "lockwait"
    /\ ctx = "cancelled"
    /\ err' = Error("ctx")
    /\ pc' = "ret"
    /\ locked' = TRUE
    /\ UNCHANGED <<config, history, applied, fatalErr, closed, drvLock,
                   lockTask, ctx, frames, queue, log>>

\* Handle.lock, select: ctx.Done() is taken; the goroutine is left behind.
LockCancelled ==
    /\ pc = "lockwait"
    /\ ctx = "cancelled"
    /\ err' = Error("ctx")
    /\ pc' = "ret"
    /\ UNCHANGED <<config, history, applied, locked, fatalErr, closed, drvLock,
                   lockTask, ctx, frames, queue, log>>

\* ReadMigrationFiles: "duplicate migration file version %d : %q and %q"
\* (existing.filename is the file seen first, file.Name() the second one)
DuplicateErr(r) ==
    [kind |-> "duplicate", file |-> r.file, version |-> TRUE, filename |-> TRUE,
     existing |-> r.existing]

\* Mutant of Plan: PendingMigrations passes the pending files on to be
\* applied, as Up does.
PlanPendingApplied(o, files, versions) ==
    CASE o.name = "Up" ->
           [err |-> NilErr, files |-> Pending(files, versions)]
      [] o.name = "Down" ->
           [err |-> NilErr, files |-> Applied(files, versions)]
      [] o.name = "Migrate" ->
           [err |-> NilErr, files |-> Relative(files, o.n, versions)]
      [] o.name = "PendingMigrations" ->
           [err |-> NilErr, files |-> Pending(files, versions)]
      [] o.name = "ApplyVersion" ->
           IF Contains(versions, o.v)
           THEN [err |-> VersionErr("already applied", o.v), files |-> <<>>]
           ELSE IF FileForDirection(files, o.v, "up") = NoFile
           THEN [err |-> VersionErr("no file", o.v), files |-> <<>>]
           ELSE [err |-> NilErr, files |-> <<FileForDirection(files, o.v, "up")>>]
      [] o.name = "RollbackVersion" ->
           IF ~Contains(versions, o.v)
           THEN [err |-> VersionErr("not applied", o.v), files |-> <<>>]
           ELSE IF FileForDirection(files, o.v, "down") = NoFile
           THEN [err |-> VersionErr("no file", o.v), files |-> <<>>]
           ELSE [err |-> NilErr, files |-> <<FileForDirection(files, o.v, "down")>>]

\* What the body of the operation does with the scan and the versions read:
\* the files to pass to drvMigrate, or the error of migrateVersion.
Plan(o, files, versions) ==
    CASE o.name = "Up" ->
           [err |-> NilErr, files |-> Pending(files, versions)]
      [] o.name = "Down" ->
           [err |-> NilErr, files |-> Applied(files, versions)]
      [] o.name = "Migrate" ->
           [err |-> NilErr, files |-> Relative(files, o.n, versions)]
      [] o.name = "PendingMigrations" ->
           [err |-> NilErr, files |-> <<>>]
      [] o.name = "ApplyVersion" ->
           IF Contains(versions, o.v)
           THEN [err |-> VersionErr("already applied", o.v), files |-> <<>>]
           ELSE IF FileForDirection(files, o.v, "up") = NoFile
           THEN [err |-> VersionErr("no file", o.v), files |-> <<>>]
           ELSE [err |-> NilErr, files |-> <<FileForDirection(files, o.v, "up")>>]
      [] o.name = "RollbackVersion" ->
           IF ~Contains(versions, o.v)
           THEN [err |-> VersionErr("not applied", o.v), files |-> <<>>]
           ELSE IF FileForDirection(files, o.v, "down") = NoFile
           THEN [err |-> VersionErr("no file", o.v), files |-> <<>>]
           ELSE [err |-> NilErr, files |-> <<FileForDirection(files, o.v, "down")>>]

\* The body of Up, Down, Migrate, PendingMigrations and migrateVersion up to
\* its loop: readFilesAndGetVersions, then the files to apply.
ReadFilesAndGetVersions ==
    /\ pc = "body"
    /\ Top.op.name \in {"Up", "Down", "Migrate", "PendingMigrations",
                        "ApplyVersion", "RollbackVersion"}
    /\ \E ioOk \in BOOLEAN, versionsOk \in BOOLEAN :
          LET r == ReadMigrationFiles(dir)
              p == Plan(Top.op, r.files, DrvVersions(applied))
          IN  IF ~ioOk
              THEN /\ log' = Append(log, Event("ReadDir", NoFile, FALSE))
                   /\ err' = Error("readdir")
                   /\ pc' = "ret"
                   /\ queue' = <<>>
              ELSE IF r.err # "nil"
              THEN /\ log' = Append(log, Event("ReadDir", NoFile, TRUE))
                   /\ err' = DuplicateErr(r)
                   /\ pc' = "ret"
                   /\ queue' = <<>>
              ELSE IF ~versionsOk
              THEN /\ log' = log \o <<Event("ReadDir", NoFile, TRUE),
                                      Event("Versions", NoFile, FALSE)>>
                   /\ err' = Error("versions")
                   /\ pc' = "ret"
                   /\ queue' = <<>>
              ELSE /\ log' = log \o <<Event("ReadDir", NoFile, TRUE),
                                      Event("Versions", NoFile, TRUE)>>
                   /\ err' = p.err
                   /\ queue' = p.files
                   /\ pc' = IF p.files = <<>> THEN "ret" ELSE "check"
    /\ UNCHANGED <<config, history, applied, locked, fatalErr, closed, drvLock,
                   lockTask, ctx, frames>>

\* The body of Version and of Versions: one call of the driver.
DrvRead ==
    /\ pc = "body"
    /\ Top.op.name \in {"Version", "Versions"}
    /\ \E ok \in BOOLEAN :
          /\ log' = Append(log, Event(Top.op.name, NoFile, ok))
          /\ err' = IF ok THEN NilErr ELSE Error("driver")
    /\ pc' = "ret"
    /\ UNCHANGED <<config, history, applied, locked, fatalErr, closed, drvLock,
                   lockTask, ctx, frames, queue>>

\* The body of Redo and of Reset calls the public operation of its phase.
CallInner ==
    /\ pc = "body"
    /\ Top.op.name \in {"Redo", "Reset"}
    /\ EnterLock(Append(frames, Frame(InnerOp(Top.op, Top.phase))), log)
    /\ UNCHANGED <<config, history, applied, locked, fatalErr, closed, drvLock,
                   ctx, queue>>

\* Mutant of DrvMigrateSelect: the context is not looked at.
DrvMigrateNoSelect ==
    /\ pc = "check"
    /\ err' = NilErr
    /\ pc' = (IF preHook THEN "pre" ELSE "mig")
    /\ UNCHANGED <<config, history, applied, locked, fatalErr, closed, drvLock,
                   lockTask, ctx, frames, queue, log>>

\* drvMigrate, select: the context is checked before the file.
DrvMigrateSelect ==
    /\ pc = "check"
    /\ IF ctx = "cancelled"
       THEN err' = InterruptedErr(Head(queue)) /\ pc' = "ret"
       ELSE err' = NilErr /\ pc' = (IF preHook THEN "pre" ELSE "mig")
    /\ UNCHANGED <<config, history, applied, locked, fatalErr, closed, drvLock,
                   lockTask, ctx, frames, queue, log>>

\* The file is done: the loop goes on with the next one, or ends.
FileDone(q) ==
    /\ queue' = Tail(q)
    /\ pc' = IF Tail(q) = <<>> THEN "ret" ELSE "check"
    /\ err' = NilErr

\* Mutant of PreHookCall: the error of the hook is dropped.
PreHookCallIgnoresError ==
    /\ pc = "pre"
    /\ \E ok \in BOOLEAN :
          log' = Append(log, Event("preHook", Head(queue), ok))
    /\ pc' = "mig"
    /\ err' = NilErr
    /\ UNCHANGED <<config, history, applied, locked, fatalErr, closed, drvLock,
                   lockTask, ctx, frames, queue>>

\* drvMigrate: runHookIfNotNil(m.preHook, "pre", f)
PreHookCall ==
    /\ pc = "pre"
    /\ \E ok \in BOOLEAN :
          /\ log' = Append(log, Event("preHook", Head(queue), ok))
          /\ IF ok THEN pc' = "mig" /\ err' = NilErr
                   ELSE pc' = "ret" /\ err' = HookErr("pre-hook", Head(queue))
    /\ UNCHANGED <<config, history, applied, locked, fatalErr, closed, drvLock,
                   lockTask, ctx, frames, queue>>

\* Driver.Migrate(f) succeeded: the bookkeeping row of the version is
\* inserted (up) or deleted (down).
Migrated(S, f) ==
    IF f.d = "up" THEN S \cup {f.version} ELSE S \ {f.version}

\* Mutant of DrvMigrateCall: the loop goes on after a failed file.
DrvMigrateCallKeepsGoing ==
    /\ pc = "mig"
    /\ \E ok \in BOOLEAN :
          /\ ok => ~(Head(queue).d = "up" /\ Head(queue).version \in applied)
          /\ log' = Append(log, Event("Migrate", Head(queue), ok))
          /\ IF ok
             THEN /\ applied' = Migrated(applied, Head(queue))
                  /\ IF postHook
                     THEN pc' = "post" /\ err' = NilErr /\ UNCHANGED queue
                     ELSE FileDone(queue)
             ELSE /\ FileDone(queue)
                  /\ UNCHANGED applied
    /\ UNCHANGED <<config, history, locked, fatalErr, closed, drvLock,
                   lockTask, ctx, frames>>

\* Mutant of DrvMigrateCall: the context is checked again before the driver
\* is called.
DrvMigrateCallChecksCtx ==
    /\ pc = "mig"
    /\ IF ctx = "cancelled"
       THEN /\ pc' = "ret"
            /\ err' = InterruptedErr(Head(queue))
            /\ UNCHANGED <<applied, queue, log>>
       ELSE \E ok \in BOOLEAN :
          /\ ok => ~(Head(queue).d = "up" /\ Head(queue).version \in applied)
          /\ log' = Append(log, Event("Migrate", Head(queue), ok))
          /\ IF ok
             THEN /\ applied' = Migrated(applied, Head(queue))
                  /\ IF postHook
                     THEN pc' = "post" /\ err' = NilErr /\ UNCHANGED queue
                     ELSE FileDone(queue)
             ELSE /\ pc' = "ret"
                  /\ err' = DrvMigrateErr(Head(queue))
                  /\ UNCHANGED <<applied, queue>>
    /\ UNCHANGED <<config, history, locked, fatalErr, closed, drvLock,
                   lockTask, ctx, frames>>

\* drvMigrate: m.drv.Migrate(f). An up migration of an applied version
\* cannot succeed (the version is the primary key of the bookkeeping).
DrvMigrateCall ==
    /\ pc = "mig"
    /\ \E ok \in BOOLEAN :
          /\ ok => ~(Head(queue).d = "up" /\ Head(queue).version \in applied)
          /\ log' = Append(log, Event("Migrate", Head(queue), ok))
          /\ IF ok
             THEN /\ applied' = Migrated(applied, Head(queue))
                  /\ IF postHook
                     THEN pc' = "post" /\ err' = NilErr /\ UNCHANGED queue
                     ELSE FileDone(queue)
             ELSE /\ pc' = "ret"
                  /\ err' = DrvMigrateErr(Head(queue))
                  /\ UNCHANGED <<applied, queue>>
    /\ UNCHANGED <<config, history, locked, fatalErr, closed, drvLock,
                   lockTask, ctx, frames>>

\* Mutant of PostHookCall: a failed hook undoes the bookkeeping of the file.
PostHookCallRollsBack ==
    /\ pc = "post"
    /\ \E ok \in BOOLEAN :
          /\ log' = Append(log, Event("postHook", Head(queue), ok))
          /\ IF ok THEN FileDone(queue) /\ UNCHANGED applied
                   ELSE /\ pc' = "ret"
                        /\ err' = HookErr("post-hook", Head(queue))
                        /\ applied' = IF Head(queue).d = "up"
                                       THEN applied \ {Head(queue).version}
                                       ELSE applied \cup {Head(queue).version}
                        /\ UNCHANGED queue
    /\ UNCHANGED <<config, history, locked, fatalErr, closed, drvLock,
                   lockTask, ctx, frames>>

\* drvMigrate: runHookIfNotNil(m.postHook, "post", f)
PostHookCall ==
    /\ pc = "post"
    /\ \E ok \in BOOLEAN :
          /\ log' = Append(log, Event("postHook", Head(queue), ok))
          /\ IF ok THEN FileDone(queue)
                   ELSE /\ pc' = "ret"
                        /\ err' = HookErr("post-hook", Head(queue))
                        /\ UNCHANGED queue
    /\ UNCHANGED <<config, history, applied, locked, fatalErr, closed, drvLock,
                   lockTask, ctx, frames>>

\* Mutant of Handle.unlock: a failed Unlock is treated like a success.
UnlockIgnoresError(lg) ==
    \E ok \in BOOLEAN :
       /\ locked' = FALSE
       /\ drvLock' = FALSE
       /\ log' = Append(lg, Event("Unlock", NoFile, ok))
       /\ UNCHANGED <<closed, fatalErr>>

\* Handle.unlock, the deferred call of the frame that took the lock.
Unlock(lg) ==
    \E ok \in BOOLEAN :
       IF ok
       THEN /\ locked' = FALSE
            /\ drvLock' = FALSE
            /\ log' = Append(lg, Event("Unlock", NoFile, TRUE))
            /\ UNCHANGED <<closed, fatalErr>>
       ELSE /\ closed' = TRUE
            /\ fatalErr' = FatalError
            /\ drvLock' \in BOOLEAN
            /\ log' = lg \o <<Event("Unlock", NoFile, FALSE),
                              Event("Close", NoFile, TRUE)>>
            /\ UNCHANGED locked

\* Mutant of Return: locking returns the error of a failed unlock.
ReturnWithUnlockError ==
    /\ pc = "ret"
    /\ IF Top.unlock = "unlock" THEN Unlock(log)
       ELSE UNCHANGED <<locked, drvLock, closed, fatalErr, log>>
    /\ err' = IF fatalErr' # NilErr THEN fatalErr' ELSE err
    /\ LET rest == SubSeq(frames, 1, Len(frames) - 1)
       IN  IF rest = <<>>
           THEN pc' = "done" /\ frames' = <<>>
           ELSE IF err # NilErr \/ rest[Len(rest)].phase = 2
           THEN pc' = "ret" /\ frames' = rest
           ELSE pc' = "body" /\ frames' = SetTop(rest, "phase", 2)
    /\ queue' = <<>>
    /\ UNCHANGED <<config, history, applied, lockTask, ctx>>

\* The operation on top returns err: its deferred unlock runs, and its
\* caller (the body of Redo or Reset, or the user) goes on.
Return ==
    /\ pc = "ret"
    /\ IF Top.unlock = "unlock" THEN Unlock(log)
       ELSE UNCHANGED <<locked, drvLock, closed, fatalErr, log>>
    /\ LET rest == SubSeq(frames, 1, Len(frames) - 1)
       IN  IF rest = <<>>
           THEN pc' = "done" /\ frames' = <<>>
           ELSE IF err # NilErr \/ rest[Len(rest)].phase = 2
           THEN pc' = "ret" /\ frames' = rest
           ELSE pc' = "body" /\ frames' = SetTop(rest, "phase", 2)
    /\ queue' = <<>>
    /\ UNCHANGED <<config, history, applied, lockTask, ctx, err>>

\* The caller has the result of the operation; the Handle is idle again.
Finish ==
    /\ pc = "done"
    /\ pc' = "idle"
    /\ ctx' = "none"
    /\ err' = NilErr
    /\ log' = <<>>
    /\ op' = Op("none", 0, 0)
    /\ appliedAtCall' = applied
    /\ fatalAtCall' = fatalErr
    /\ ctxAtCall' = "none"
    /\ UNCHANGED <<config, prev, applied, locked, fatalErr, closed, drvLock,
                   lockTask, frames, queue>>

Next ==
    \/ \E o \in Ops, c \in {"live", "cancelled"} : Call(o, c)
    \/ Cancel
    \/ DrvLockReturn
    \/ LockGranted
    \/ LockFailed
    \/ LockCancelled
    \/ ReadFilesAndGetVersions
    \/ DrvRead
    \/ CallInner
    \/ DrvMigrateSelect
    \/ PreHookCall
    \/ DrvMigrateCall
    \/ PostHookCall
    \/ Return
    \/ Finish

Spec == Init /\ [][Next]_vars

\* ------------------------------------------------------------- claims
\* The positions of the log that hold a call of the kind, or a failed one.
Calls(call) == {i \in 1..Len(log) : log[i].call = call}

Failed(call) == {i \in Calls(call) : ~log[i].ok}

\* The bookkeeping after the successful driver Migrate calls of lg, from S.
RECURSIVE ApplyLog(_, _)
ApplyLog(S, lg) ==
    IF lg = <<>> THEN S
    ELSE ApplyLog(IF Head(lg).call = "Migrate" /\ Head(lg).ok
                  THEN Migrated(S, Head(lg).file) ELSE S,
                  Tail(lg))

\* Nothing but the release of the lock follows position i of the log.
OnlyUnlockAfter(i) ==
    \A j \in (i + 1)..Len(log) : log[j].call \in {"Unlock", "Close"}

\* C1: an operation called on a Ready Handle calls the driver's Lock once,
\* first of all, and the driver's Unlock at most once: exactly once when the
\* lock was acquired, only when the outer operation returns, and after every
\* other call of the operation (only the Close of a failed Unlock follows).
C1_OneLockOneUnlock ==
    (pc # "idle" /\ fatalAtCall = NilErr) =>
        /\ Calls("Lock") = {1}
        /\ Cardinality(Calls("Unlock")) <= 1
        /\ \A i \in Calls("Unlock") : pc = "done" /\ OnlyUnlockAfter(i)
        /\ (pc = "done" /\ err.kind \notin {"lock", "ctx"}) =>
               Cardinality(Calls("Unlock")) = 1

\* A Redo that ran both its phases and released the lock once.
C1_Witness ==
    /\ pc = "done"
    /\ op.name = "Redo"
    /\ err = NilErr
    /\ Cardinality(Calls("Migrate")) = 2
    /\ Cardinality(Calls("Unlock")) = 1

\* C2: a failed Unlock is followed by the driver's Close and leaves the
\* fatal error set; a successful Unlock leaves the Handle Ready, the
\* lock-held flag false.
C2_UnlockOutcome ==
    \A i \in Calls("Unlock") :
        IF log[i].ok
        THEN i = Len(log) /\ ~locked /\ fatalErr = NilErr /\ ~closed
        ELSE /\ i < Len(log)
             /\ log[i + 1] = Event("Close", NoFile, TRUE)
             /\ closed
             /\ fatalErr = FatalError

\* An operation whose Unlock failed has returned.
C2_Witness ==
    /\ pc = "done"
    /\ Failed("Unlock") # {}
    /\ fatalErr = FatalError

\* C3: the fatal error, once set, is never cleared, and an operation called
\* on a Poisoned Handle returns it at once: no call is made by it.
C3_PoisonedIsTerminal ==
    /\ [][fatalErr # NilErr => fatalErr' = fatalErr]_vars
    /\ []((pc # "idle" /\ fatalAtCall # NilErr) =>
              /\ pc \in {"ret", "done"}
              /\ err = fatalAtCall
              /\ log = <<>>
              /\ applied = appliedAtCall)

\* An Up called on a Poisoned Handle has returned.
C3_Witness ==
    /\ pc = "done"
    /\ op.name = "Up"
    /\ fatalAtCall = FatalError
    /\ err = FatalError

\* C4, as claimed: an operation whose Unlock failed does not report success
\* but the unlock error.
C4_UnlockErrorSurfaced ==
    (pc = "done" /\ Failed("Unlock") # {}) => err = FatalError

\* C4, amended: the deferred unlock never changes what the operation
\* returns (it returns what its body returned, nil included); the error of a
\* failed Unlock is stored as the fatal error and returned by later calls.
C4_UnlockErrorDeferred ==
    /\ [][pc = "ret" => err' = err]_vars
    /\ []((pc = "done" /\ Failed("Unlock") # {}) =>
              fatalErr = FatalError /\ err # FatalError)
    /\ []((pc = "done" /\ fatalAtCall = FatalError) => err = FatalError)

\* An operation that reports success although its Unlock failed.
C4_Witness ==
    /\ pc = "done"
    /\ Failed("Unlock") # {}
    /\ err = NilErr
    /\ Calls("Migrate") # {}

\* C5: in Up, Down and Migrate(n), a failed driver Migrate is the last call
\* of the operation but the release of the lock (no post-hook, no later
\* file, no rollback), its error is what the operation returns, and the
\* applied versions are those of the call changed by the earlier steps.
C5_DriverFailureAborts ==
    op.name \in {"Up", "Down", "Migrate"} =>
        \A i \in Failed("Migrate") :
            /\ pc \in {"ret", "done"}
            /\ err = DrvMigrateErr(log[i].file)
            /\ OnlyUnlockAfter(i)
            /\ applied = ApplyLog(appliedAtCall, SubSeq(log, 1, i - 1))

\* An Up whose second file failed in the driver, the first one applied.
C5_Witness ==
    /\ pc = "done"
    /\ op.name = "Up"
    /\ \E i \in Failed("Migrate") :
          \E j \in Calls("Migrate") : j < i /\ log[j].ok
    /\ applied # appliedAtCall

\* C6: a failed pre-hook is the last call of the operation but the release
\* of the lock: the driver's Migrate is called neither for its file nor for
\* a later one, the applied versions are as the earlier steps left them, and
\* the operation returns the hook's error, which names the file.
C6_PreHookFailureAborts ==
    \A i \in Failed("preHook") :
        /\ preHook
        /\ pc \in {"ret", "done"}
        /\ err = HookErr("pre-hook", log[i].file)
        /\ err.filename
        /\ OnlyUnlockAfter(i)
        /\ \A j \in Calls("Migrate") : log[j].file # log[i].file
        /\ applied = ApplyLog(appliedAtCall, SubSeq(log, 1, i - 1))

\* A pre-hook that failed for the second file of a sequence.
C6_Witness ==
    /\ pc = "done"
    /\ \E i \in Failed("preHook") :
          \E j \in Calls("Migrate") : j < i /\ log[j].ok

\* C7: a failed post-hook follows the successful Migrate of its file, is the
\* last call of the operation but the release of the lock, makes the
\* operation return an error, and leaves the migration applied.
C7_PostHookFailureKeepsMigration ==
    \A i \in Failed("postHook") :
        /\ i > 1
        /\ log[i - 1] = Event("Migrate", log[i].file, TRUE)
        /\ pc \in {"ret", "done"}
        /\ err = HookErr("post-hook", log[i].file)
        /\ OnlyUnlockAfter(i)
        /\ applied = ApplyLog(appliedAtCall, SubSeq(log, 1, i))
        /\ log[i].file.d = "up" => log[i].file.version \in applied
        /\ log[i].file.d = "down" => log[i].file.version \notin applied

\* A post-hook that failed after an up migration, files still pending.
C7_Witness ==
    /\ pc = "done"
    /\ op.name = "Up"
    /\ \E i \in Failed("postHook") : log[i].file.version \in applied
    /\ Len(Pending(ReadMigrationFiles(dir).files, DrvVersions(applied))) > 0

\* C8: at the check before a file, a cancelled context makes the operation
\* return an error naming the file's version with no call made; the file of
\* that error is never passed to a hook or to the driver, and nothing but
\* the release of the lock follows.
C8_CancelledBeforeFile ==
    /\ [][(pc = "check" /\ ctx = "cancelled") =>
              /\ pc' = "ret"
              /\ err' = InterruptedErr(Head(queue))
              /\ log' = log
              /\ applied' = applied]_vars
    /\ [][(err.kind = "interrupted" /\ pc # "done") =>
              /\ err' = err
              /\ \A j \in (Len(log) + 1)..Len(log') :
                    log'[j].call \in {"Unlock", "Close"}]_vars
    /\ [](err.kind = "interrupted" =>
              /\ err.version
              /\ pc \in {"ret", "done"}
              /\ \A j \in 1..Len(log) : log[j].file # err.file)

\* An operation interrupted before its second file.
C8_Witness ==
    /\ pc = "done"
    /\ err.kind = "interrupted"
    /\ \E j \in Calls("Migrate") : log[j].ok

\* C9: once the check before a file has passed, a cancelled context changes
\* nothing for that file: the pre-hook, the driver's Migrate and the
\* post-hook are called as they are without it, and the "interrupted" error
\* arises only at the check before a file.
C9_NoMidStepCancellation ==
    /\ [][(pc \in {"pre", "mig", "post"} /\ ctx = "cancelled") =>
              /\ log' = Append(log,
                     Event(CASE pc = "pre" -> "preHook"
                             [] pc = "mig" -> "Migrate"
                             [] pc = "post" -> "postHook",
                           Head(queue), log'[Len(log')].ok))
              /\ err'.kind # "interrupted"
              /\ (log'[Len(log')].ok /\ pc = "pre") => pc' = "mig"
              /\ (log'[Len(log')].ok /\ pc = "mig" /\ postHook) => pc' = "post"
              /\ (log'[Len(log')].ok /\ (pc = "post" \/ (pc = "mig" /\ ~postHook)))
                    => pc' \in {"check", "ret"} /\ err' = NilErr]_vars
    /\ [][(err'.kind = "interrupted" /\ err.kind # "interrupted") =>
              pc = "check"]_vars

\* The context was cancelled after the check of a file, and the pre-hook and
\* the driver's Migrate of that file ran nevertheless.
C9_Witness ==
    /\ pc = "post"
    /\ ctx = "cancelled"
    /\ Len(log) >= 2
    /\ log[Len(log) - 1] = Event("preHook", Head(queue), TRUE)
    /\ log[Len(log)] = Event("Migrate", Head(queue), TRUE)

\* C10: when the driver's Lock fails, or the context wins the select of
\* Handle.lock, the operation returns that error, the lock-held flag is
\* false, and the operation makes no call but that of the driver's Lock.
C10_LockErrorAbortsBeforeAnyCall ==
    err.kind \in {"lock", "ctx"} =>
        /\ pc \in {"ret", "done"}
        /\ ~locked
        /\ log = <<Event("Lock", NoFile, TRUE)>>
        /\ applied = appliedAtCall
        /\ fatalErr = NilErr

\* The context won although the lock was granted; and a failed Lock.
C10_Witness ==
    /\ pc = "done"
    /\ \/ err.kind = "ctx" /\ lockTask = "closed"
       \/ err.kind = "lock"

\* C11: an operation called on a Ready Handle with a context that is already
\* cancelled fails with the cancellation error, the driver's Lock is not
\* granted to it, and it reads neither the versions nor the files.
C11_CancelledBeforeLock ==
    (ctxAtCall = "cancelled" /\ fatalAtCall = NilErr) =>
        /\ ~locked
        /\ lockTask # "closed"
        /\ Calls("ReadDir") = {}
        /\ Calls("Versions") = {}
        /\ Calls("Version") = {}
        /\ pc = "done" => err = Error("ctx")

\* C12: the goroutine started by drvLockChan is never left blocked forever:
\* it is never sending driver.Lock's error on its channel when Handle.lock,
\* the only receiver of that channel, has left its select.
C12_LockTaskNeverStuck == ~(lockTask = "sending" /\ pc # "lockwait")

\* ------------------------------------------------------- two Handles
\* A second Handle on the same store: the same lock, locking and unlock,
\* around a body that makes driver Migrate calls. The driver's advisory
\* lock is exclusive: it is held by one connection at a time.
PeerIdle == [NoPeer EXCEPT !.pc = "idle"]

\* The migrations directory of the two Handles: one migration, both files.
DirOne == {f \in AllFiles : f.version = 1 /\ f.name = "a"}

InitTwo ==
    /\ dir = DirOne
    /\ applied = {}
    /\ preHook = FALSE
    /\ postHook = FALSE
    /\ locked = FALSE
    /\ fatalErr = NilErr
    /\ closed = FALSE
    /\ drvLock = FALSE
    /\ lockTask = "none"
    /\ ctx = "none"
    /\ pc = "idle"
    /\ frames = <<>>
    /\ queue = <<>>
    /\ err = NilErr
    /\ log = <<>>
    /\ op = Op("none", 0, 0)
    /\ appliedAtCall = applied
    /\ fatalAtCall = fatalErr
    /\ ctxAtCall = "none"
    /\ prev = NoPrev
    /\ peer = PeerIdle
    /\ fcall = NoCall

\* What the second Handle's steps leave alone: the first Handle.
handle == <<dir, preHook, postHook, locked, fatalErr, closed, drvLock,
            lockTask, ctx, pc, frames, queue, err, log, history, fcall>>

\* driver.Lock returns to the first Handle's goroutine: it is granted only
\* if the second Handle's connection does not hold the lock.
DrvLockReturnExclusive ==
    /\ DrvLockReturn
    /\ lockTask' = "closed" => ~peer.held

\* The second Handle is called: Handle.lock up to its select.
PeerCall(c) ==
    /\ peer.pc = "idle"
    /\ peer' = IF peer.fatal THEN peer
               ELSE [peer EXCEPT !.pc = "lockwait", !.ctx = c,
                                 !.task = "calling"]
    /\ UNCHANGED <<handle, applied>>

\* The context of the second Handle's operation is cancelled.
PeerCancel ==
    /\ peer.pc \in {"lockwait", "body"}
    /\ peer.ctx = "live"
    /\ peer' = [peer EXCEPT !.ctx = "cancelled"]
    /\ UNCHANGED <<handle, applied>>

\* driver.Lock returns to the second Handle's goroutine.
PeerLockReturn ==
    /\ peer.task = "calling"
    /\ \E ok \in BOOLEAN :
          IF ok THEN /\ ~drvLock
                     /\ peer' = [peer EXCEPT !.task = "closed", !.held = TRUE]
                ELSE peer' = [peer EXCEPT !.task = "sending"]
    /\ UNCHANGED <<handle, applied>>

\* The second Handle's select: the channel was closed without an error.
PeerLockGranted ==
    /\ peer.pc = "lockwait"
    /\ peer.task = "closed"
    /\ peer' = [peer EXCEPT !.pc = "body", !.task = "none", !.locked = TRUE,
                            !.unlock = "unlock"]
    /\ UNCHANGED <<handle, applied>>

\* The second Handle's select: an error was received; the operation returns.
PeerLockFailed ==
    /\ peer.pc = "lockwait"
    /\ peer.task = "sending"
    /\ peer' = [peer EXCEPT !.pc = "idle", !.task = "none", !.ctx = "none"]
    /\ UNCHANGED <<handle, applied>>

\* The second Handle's select: ctx.Done() is taken; the operation returns.
PeerLockCancelled ==
    /\ peer.pc = "lockwait"
    /\ peer.ctx = "cancelled"
    /\ peer' = [peer EXCEPT !.pc = "idle", !.ctx = "none"]
    /\ UNCHANGED <<handle, applied>>

\* The second Handle's operation has the driver migrate a version of the
\* directory, up or down.
PeerMigrate ==
    /\ peer.pc = "body"
    /\ \E v \in {f.version : f \in dir} :
          applied' = IF v \in applied THEN applied \ {v} ELSE applied \cup {v}
    /\ UNCHANGED <<handle, peer>>

\* The second Handle's operation returns: the deferred Handle.unlock.
PeerReturn ==
    /\ peer.pc = "body"
    /\ \E ok \in BOOLEAN, h \in BOOLEAN :
          peer' = IF ok
                  THEN [peer EXCEPT !.pc = "idle", !.ctx = "none",
                                    !.locked = FALSE, !.held = FALSE,
                                    !.unlock = "none"]
                  ELSE [peer EXCEPT !.pc = "idle", !.ctx = "none",
                                    !.fatal = TRUE, !.held = h,
                                    !.unlock = "none"]
    /\ UNCHANGED <<handle, applied>>

NextTwo ==
    \/ \E o \in Ops, c \in {"live", "cancelled"} : Call(o, c)
    \/ Cancel
    \/ DrvLockReturnExclusive
    \/ LockGranted
    \/ LockFailed
    \/ LockCancelled
    \/ ReadFilesAndGetVersions
    \/ DrvRead
    \/ CallInner
    \/ DrvMigrateSelect
    \/ DrvMigrateCall
    \/ Return
    \/ Finish
    \/ \E c \in {"live", "cancelled"} : PeerCall(c)
    \/ PeerCancel
    \/ PeerLockReturn
    \/ PeerLockGranted
    \/ PeerLockFailed
    \/ PeerLockCancelled
    \/ PeerMigrate
    \/ PeerReturn

SpecTwo == InitTwo /\ [][NextTwo]_vars

\* A Handle is inside a locking scope: between the grant of the lock to its
\* outer operation and the unlock of that operation.
HandleInScope ==
    /\ pc \notin {"idle", "lockwait", "done"}
    /\ frames # <<>>
    /\ frames[1].unlock = "unlock"

PeerInScope == peer.pc = "body"

\* C13: two Handles on one store whose driver's lock is exclusive are never
\* inside a locking scope at the same time, so that the driver Migrate calls
\* of an operation of one are not interleaved with those of the other.
C13_ScopesExclude ==
    /\ ~(HandleInScope /\ PeerInScope)
    /\ HandleInScope => drvLock /\ ~peer.held
    /\ PeerInScope => peer.held /\ ~drvLock

\* The first Handle is between two driver Migrate calls of a Redo while the
\* second Handle's goroutine waits in driver.Lock.
C13_Witness ==
    /\ op.name = "Redo"
    /\ pc = "mig"
    /\ Calls("Migrate") # {}
    /\ peer.pc = "lockwait"
    /\ peer.task = "calling"

\* ------------------------------------------------- the set algebra
\* Calls of Pending, Applied and Relative on a MigrationFiles collection and
\* a Versions slice of the caller's. Pending and Applied sort the collection
\* in place, so a later call finds it in the order the last one left; arg is
\* the collection as the last call found it.
UpFileOf(v) == [version |-> v, name |-> "a", d |-> "up"]

DownFileOf(v) == [version |-> v, name |-> "a", d |-> "down"]

\* The MigrationFile values of a version: at least one of the two slots set.
MigrationFileValues ==
    {[Version |-> v, UpFile |-> u, DownFile |-> d] :
        v \in VersionIds, u \in {NoFile} \cup {UpFileOf(w) : w \in VersionIds},
        d \in {NoFile} \cup {DownFileOf(w) : w \in VersionIds}}

\* The collections: one MigrationFile per version, in any order.
InputFiles ==
    {mf \in UNION {[1..k -> MigrationFileValues] : k \in 0..MaxVersion} :
        /\ \A i \in 1..Len(mf) :
              /\ mf[i].UpFile # NoFile \/ mf[i].DownFile # NoFile
              /\ mf[i].UpFile # NoFile => mf[i].UpFile.version = mf[i].Version
              /\ mf[i].DownFile # NoFile => mf[i].DownFile.version = mf[i].Version
        /\ \A i, j \in 1..Len(mf) : i # j => mf[i].Version # mf[j].Version}

InitFiles ==
    /\ dir = {}
    /\ applied = {}
    /\ preHook = FALSE
    /\ postHook = FALSE
    /\ locked = FALSE
    /\ fatalErr = NilErr
    /\ closed = FALSE
    /\ drvLock = FALSE
    /\ lockTask = "none"
    /\ ctx = "none"
    /\ pc = "idle"
    /\ frames = <<>>
    /\ queue = <<>>
    /\ err = NilErr
    /\ log = <<>>
    /\ op = Op("none", 0, 0)
    /\ appliedAtCall = applied
    /\ fatalAtCall = fatalErr
    /\ ctxAtCall = "none"
    /\ prev = NoPrev
    /\ peer = NoPeer
    /\ \E mf \in InputFiles, S \in SUBSET VersionIds :
          fcall = [NoCall EXCEPT !.mf = mf, !.versions = DrvVersions(S)]

\* What a call of the file package leaves alone: the engine.
engine == <<dir, applied, preHook, postHook, locked, fatalErr, closed,
            drvLock, lockTask, ctx, pc, frames, queue, err, log, history,
            peer>>

\* mf.Pending(versions)
CallPending ==
    /\ fcall' = [fcall EXCEPT !.fn = "Pending", !.n = 0, !.arg = fcall.mf,
                              !.mf = SortAsc(fcall.mf),
                              !.out = Pending(fcall.mf, fcall.versions),
                              !.panic = FALSE]
    /\ UNCHANGED engine

\* mf.Applied(versions)
CallApplied ==
    /\ fcall' = [fcall EXCEPT !.fn = "Applied", !.n = 0, !.arg = fcall.mf,
                              !.mf = SortDesc(fcall.mf),
                              !.out = Applied(fcall.mf, fcall.versions),
                              !.panic = FALSE]
    /\ UNCHANGED engine

\* mf.Relative(relativeN, versions)
CallRelative(relativeN) ==
    /\ fcall' = [fcall EXCEPT
                    !.fn = "Relative", !.n = relativeN, !.arg = fcall.mf,
                    !.mf = IF relativeN > 0 THEN SortAsc(fcall.mf)
                           ELSE IF relativeN < 0 THEN SortDesc(fcall.mf)
                           ELSE fcall.mf,
                    !.out = Relative(fcall.mf, relativeN, fcall.versions),
                    !.panic = RelativePanics(fcall.mf, relativeN,
                                             fcall.versions)]
    /\ UNCHANGED engine

NextFiles ==
    \/ CallPending
    \/ CallApplied
    \/ \E relativeN \in MinInt..MaxInt : CallRelative(relativeN)

SpecFiles == InitFiles /\ [][NextFiles]_vars

\* The elements of a sequence, and the applied set of a Versions slice.
Range(s) == {s[i] : i \in 1..Len(s)}

\* The files of a slice are in ascending (descending) order of version.
Ascending(files) ==
    \A i, j \in 1..Len(files) : i < j => files[i].version <= files[j].version

Descending(files) ==
    \A i, j \in 1..Len(files) : i < j => files[i].version >= files[j].version

\* C14: Pending(S) is exactly the Up files of the entries of mf whose version
\* is not in S and whose Up file is there, in ascending order of version, and
\* Applied(S) exactly the Down files of the entries whose version is in S and
\* whose Down file is there, in descending order of version.
C14_PendingAppliedExact ==
    LET S    == Range(fcall.versions)
        ups   == {e.UpFile : e \in {e \in Range(fcall.arg) :
                                 e.Version \notin S /\ e.UpFile # NoFile}}
        downs == {e.DownFile : e \in {e \in Range(fcall.arg) :
                                 e.Version \in S /\ e.DownFile # NoFile}}
    IN  /\ fcall.fn = "Pending" =>
            /\ Range(fcall.out) = ups
            /\ Len(fcall.out) = Cardinality(ups)
            /\ Ascending(fcall.out)
        /\ fcall.fn = "Applied" =>
            /\ Range(fcall.out) = downs
            /\ Len(fcall.out) = Cardinality(downs)
            /\ Descending(fcall.out)

\* Pending returned two files of a collection that was in descending order
\* of version when it was called.
C14_Witness ==
    /\ fcall.fn = "Pending"
    /\ Len(fcall.out) = 2
    /\ fcall.arg[1].Version > fcall.arg[2].Version

\* C15: for a collection and an applied set, Pending is strictly ascending
\* by version, Applied strictly descending, and no version is in both.
C15_OrderedAndDisjoint ==
    fcall.fn # "none" =>
        LET pending == Pending(fcall.arg, fcall.versions)
            applied_ == Applied(fcall.arg, fcall.versions)
        IN  /\ \A i, j \in 1..Len(pending) :
                  i < j => pending[i].version < pending[j].version
            /\ \A i, j \in 1..Len(applied_) :
                  i < j => applied_[i].version > applied_[j].version
            /\ {f.version : f \in Range(pending)}
                   \cap {f.version : f \in Range(applied_)} = {}
            /\ fcall.fn = "Pending" => fcall.out = pending
            /\ fcall.fn = "Applied" => fcall.out = applied_

\* Applied was called on a collection of two migrations with both files, one
\* of them applied: Pending and Applied of it are both non-empty.
C15_Witness ==
    /\ fcall.fn = "Applied"
    /\ Len(fcall.arg) = 2
    /\ \A i \in 1..2 : fcall.arg[i].UpFile # NoFile /\ fcall.arg[i].DownFile # NoFile
    /\ Len(fcall.out) = 1
    /\ Len(Pending(fcall.arg, fcall.versions)) = 1

\* C16: Relative(n, S) never fails, for every int n: it is the first
\* min(n, |Pending(S)|) files of Pending(S) for n > 0, the first
\* min(|n|, |Applied(S)|) files of Applied(S) for n < 0, and empty for n = 0.
C16_RelativeNeverFails ==
    fcall.fn = "Relative" =>
        LET n     == fcall.n
            files == IF n > 0 THEN Pending(fcall.arg, fcall.versions)
                     ELSE Applied(fcall.arg, fcall.versions)
            abs   == IF n > 0 THEN n ELSE -n
            k     == IF abs < Len(files) THEN abs ELSE Len(files)
        IN  /\ ~fcall.panic
            /\ n = 0 => fcall.out = <<>>
            /\ n # 0 => fcall.out = SubSeq(files, 1, k)

\* ------------------------------------------- claims on the sequencing
\* The versions that have a file of the direction in the directory.
VersionsWith(d) == {f.version : f \in {g \in dir : g.d = d}}

\* The files the operation has passed to the driver's Migrate, in order.
RECURSIVE MigrateFiles(_)
MigrateFiles(lg) ==
    IF lg = <<>> THEN <<>>
    ELSE (IF Head(lg).call = "Migrate" THEN <<Head(lg).file>> ELSE <<>>)
         \o MigrateFiles(Tail(lg))

\* An outer operation of the name has returned nil.
Succeeded(name) == pc = "done" /\ op.name = name /\ err = NilErr

\* C17: an Up that succeeded has applied every version with an Up file that
\* was not in the applied set, also those below the highest applied version,
\* and left the others as they were; Versions() then lists them all, in
\* descending order.
C17_UpAppliesByMembership ==
    Succeeded("Up") =>
        LET vs == DrvVersions(applied)
        IN  /\ applied = appliedAtCall \cup VersionsWith("up")
            /\ {f.version : f \in Range(MigrateFiles(log))}
                   = VersionsWith("up") \ appliedAtCall
            /\ Range(vs) = appliedAtCall \cup VersionsWith("up")
            /\ \A i, j \in 1..Len(vs) : i < j => vs[i] > vs[j]

\* An Up that succeeded has applied a version lower than the highest one
\* that was applied when it was called.
C17_Witness ==
    /\ Succeeded("Up")
    /\ \E v \in applied \ appliedAtCall : \E w \in appliedAtCall : v < w

\* The files of a set, one per version, in ascending or descending order of
\* version.
RECURSIVE InOrder(_, _)
InOrder(S, descending) ==
    IF S = {} THEN <<>>
    ELSE LET f == CHOOSE f \in S : \A g \in S :
                     IF descending THEN f.version >= g.version
                     ELSE f.version <= g.version
         IN  <<f>> \o InOrder(S \ {f}, descending)

IsPrefix(s, t) == Len(s) <= Len(t) /\ s = SubSeq(t, 1, Len(s))

FirstOf(s, n) == SubSeq(s, 1, IF n < Len(s) THEN n ELSE Len(s))

\* What the claim has Up, Down and Migrate(n) pass to the driver, from the
\* directory and the applied set S: the Up files of the versions not in S in
\* ascending order, the Down files of the versions in S in descending order,
\* or the first |n| of the one or the other.
ExpectedFiles(o, S) ==
    LET ups   == InOrder({f \in dir : f.d = "up" /\ f.version \notin S}, FALSE)
        downs == InOrder({f \in dir : f.d = "down" /\ f.version \in S}, TRUE)
    IN  IF o.name = "Up" THEN ups
        ELSE IF o.name = "Down" THEN downs
        ELSE IF o.n > 0 THEN FirstOf(ups, o.n)
        ELSE FirstOf(downs, -o.n)

SeqOps == {o \in Ops : o.name \in {"Up", "Down"}}

\* The caller has the result of the operation; the Handle is idle again.
FinishSeq ==
    /\ pc = "done"
    /\ pc' = "idle"
    /\ ctx' = "none"
    /\ err' = NilErr
    /\ log' = <<>>
    /\ op' = Op("none", 0, 0)
    /\ appliedAtCall' = applied
    /\ fatalAtCall' = fatalErr
    /\ ctxAtCall' = "none"
    /\ prev' = [name |-> op.name, ok |-> err = NilErr, before |-> appliedAtCall]
    /\ UNCHANGED <<config, applied, locked, fatalErr, closed, drvLock,
                   lockTask, frames, queue>>

NextSeq ==
    \/ \E o \in SeqOps, c \in {"live", "cancelled"} : Call(o, c)
    \/ Cancel
    \/ DrvLockReturn
    \/ LockGranted
    \/ LockFailed
    \/ LockCancelled
    \/ ReadFilesAndGetVersions
    \/ DrvMigrateSelect
    \/ PreHookCall
    \/ DrvMigrateCall
    \/ PostHookCall
    \/ Return
    \/ FinishSeq

SpecSeq == Init /\ [][NextSeq]_vars

\* C19: an Up called right after an Up that returned nil makes no driver
\* Migrate call, runs no hook, and leaves the applied set as it was.
C19_UpIdempotent ==
    (op.name = "Up" /\ prev.name = "Up" /\ prev.ok) =>
        /\ Calls("Migrate") = {}
        /\ Calls("preHook") = {}
        /\ Calls("postHook") = {}
        /\ applied = appliedAtCall

\* A second Up has returned nil after reading the versions and the files;
\* the first one had applied a version.
C19_Witness ==
    /\ Succeeded("Up")
    /\ prev.name = "Up"
    /\ prev.ok
    /\ prev.before # applied
    /\ Calls("Versions") # {}
    /\ Calls("ReadDir") # {}

\* Every version of the directory has an Up and a Down file, and one of each.
EveryVersionHasBoth ==
    /\ VersionsWith("up") = VersionsWith("down")
    /\ ReadMigrationFiles(dir).err = "nil"

\* A Down has returned nil right after an Up that returned nil.
UpThenDown == Succeeded("Down") /\ prev.name = "Up" /\ prev.ok

\* C20, as stated: for a directory in which every version has both files, a
\* successful Up followed by a successful Down leaves Versions() empty and
\* Version() = 0.
C20_RoundTripEmpty ==
    (UpThenDown /\ EveryVersionHasBoth) =>
        DrvVersions(applied) = <<>> /\ DrvVersion(applied) = 0

\* C20, amended: what is left are the versions that were applied before the
\* Up and have no file in the directory; Versions() is empty and Version()
\* is 0 when there was none, as when nothing was applied before the Up.
C20_RoundTripRestores ==
    (UpThenDown /\ EveryVersionHasBoth) =>
        /\ applied = prev.before \ VersionsWith("down")
        /\ prev.before \subseteq VersionsWith("down") =>
              DrvVersions(applied) = <<>> /\ DrvVersion(applied) = 0

\* The Down of the round trip has rolled back two versions, of which the Up
\* had applied at least one, and nothing is applied any more.
C20_Witness ==
    /\ UpThenDown
    /\ EveryVersionHasBoth
    /\ Len(MigrateFiles(log)) = 2
    /\ appliedAtCall # prev.before
    /\ applied = {}

\* ------------------------------------------- claims on Redo and Reset
\* The versions of a sequence of files, in its order.
VersionsOf(files) == [i \in 1..Len(files) |-> files[i].version]

\* The files of a direction among those passed to the driver's Migrate.
RECURSIVE MigrateFilesOf(_, _)
MigrateFilesOf(lg, d) ==
    IF lg = <<>> THEN <<>>
    ELSE (IF Head(lg).call = "Migrate" /\ Head(lg).file.d = d
          THEN <<Head(lg).file>> ELSE <<>>)
         \o MigrateFilesOf(Tail(lg), d)

CallCount(call) == Cardinality(Calls(call))

\* The highest of a set of versions, 0 for the empty set.
Highest(S) == IF S = {} THEN 0 ELSE CHOOSE v \in S : \A w \in S : w <= v

\* C22: a Reset that succeeded on a directory in which every version has
\* both files, whatever subset of its versions was applied before, ran Down
\* and Up inside one lock hold, the Up with a scan and versions of its own;
\* every version of the directory is applied and Version() is the highest
\* version of the directory.
C22_ResetAppliesAll ==
    (Succeeded("Reset") /\ EveryVersionHasBoth
        /\ appliedAtCall \subseteq VersionsWith("down")) =>
        /\ CallCount("Lock") = 1
        /\ CallCount("Unlock") = 1
        /\ CallCount("ReadDir") = 2
        /\ CallCount("Versions") = 2
        /\ MigrateFiles(log)
              = ExpectedFiles(Op("Down", 0, 0), appliedAtCall)
                   \o ExpectedFiles(Op("Up", 0, 0), {})
        /\ applied = VersionsWith("up")
        /\ DrvVersion(applied) = Highest(VersionsWith("up"))

\* A Reset has rolled back version 2 and then applied 1 and 2.
C22_Witness ==
    /\ Succeeded("Reset")
    /\ EveryVersionHasBoth
    /\ appliedAtCall = {2}
    /\ VersionsOf(MigrateFiles(log)) = <<2, 1, 2>>

\* ----------------------------- claims on single versions and on the scan
\* C23: ApplyVersion(v) fails without a driver Migrate call or a hook call
\* when v is applied or has no Up file, RollbackVersion(v) when v is not
\* applied or has no Down file; otherwise the one file passed to the driver
\* is the file of v in the direction, once when the operation succeeds and
\* never more than once.
C23_TargetValidated ==
    op.name \in {"ApplyVersion", "RollbackVersion"} =>
        LET d       == IF op.name = "ApplyVersion" THEN "up" ELSE "down"
            target  == {f \in dir : f.version = op.v /\ f.d = d}
            invalid == \/ d = "up" /\ op.v \in appliedAtCall
                       \/ d = "down" /\ op.v \notin appliedAtCall
                       \/ target = {}
        IN  /\ invalid =>
                /\ Calls("Migrate") = {}
                /\ Calls("preHook") = {}
                /\ Calls("postHook") = {}
                /\ applied = appliedAtCall
                /\ pc = "done" => err # NilErr
                /\ (pc = "done" /\ \E i \in Calls("Versions") : log[i].ok) =>
                      err.kind \in {"already applied", "not applied", "no file"}
            /\ ~invalid =>
                /\ CallCount("Migrate") <= 1
                /\ \A i \in Calls("Migrate") : log[i].file \in target
                /\ Succeeded(op.name) => CallCount("Migrate") = 1

\* ApplyVersion of a version that has a Down file and no Up file has failed
\* after reading the versions.
C23_Witness ==
    /\ pc = "done"
    /\ op.name = "ApplyVersion"
    /\ err.kind = "no file"
    /\ \E f \in dir : f.version = op.v /\ f.d = "down"

\* Two files of the directory parse to the same version and direction.
HasDuplicate ==
    \E f, g \in dir : f # g /\ f.version = g.version /\ f.d = g.d

\* C24: when two files of the directory parse to the same (version,
\* direction) pair, the scan fails with an error that names both files, and
\* every operation that scans returns that error once it has scanned, with
\* no driver Migrate call made and the applied set as it was.
C24_DuplicateAborts ==
    LET r == ReadMigrationFiles(dir)
    IN  /\ HasDuplicate =>
            /\ r.err = "duplicate"
            /\ r.existing \in dir /\ r.file \in dir
            /\ r.existing # r.file
            /\ r.existing.version = r.file.version
            /\ r.existing.d = r.file.d
        /\ (HasDuplicate /\ op.name \in {"Up", "Down", "Migrate", "Redo", "Reset",
                "ApplyVersion", "RollbackVersion", "PendingMigrations"}) =>
            /\ Calls("Migrate") = {}
            /\ Calls("preHook") = {}
            /\ Calls("postHook") = {}
            /\ Calls("Versions") = {}
            /\ applied = appliedAtCall
            /\ pc = "done" => err # NilErr
            /\ (pc \in {"ret", "done"} /\ \E i \in Calls("ReadDir") : log[i].ok) =>
                  /\ err.kind = "duplicate"
                  /\ err.existing = r.existing
                  /\ err.file = r.file
                  /\ err.filename

\* A Reset has returned the error of the scan of its Down.
C24_Witness ==
    /\ pc = "done"
    /\ op.name = "Reset"
    /\ HasDuplicate
    /\ err.kind = "duplicate"
    /\ err.existing.name = "a"
    /\ err.file.name = "b"
    /\ CallCount("Unlock") = 1

\* C28: an error of a step of Up, Down, Migrate, ApplyVersion or
\* RollbackVersion, the failure of the driver's Migrate on a file or of a
\* hook, reaches the caller with that file's version and name attached.
C28_StepErrorNamesFile ==
    (pc = "done" /\ err.kind \in {"migrate", "pre-hook", "post-hook"}
        /\ op.name \in {"Up", "Down", "Migrate", "ApplyVersion",
                        "RollbackVersion"}) =>
        /\ err.file = log[CHOOSE i \in 1..Len(log) :
                            /\ ~log[i].ok
                            /\ log[i].call \in {"Migrate", "preHook", "postHook"}].file
        /\ err.version
        /\ err.filename

\* ------------------------------------------------------------- the scan
\* ReadMigrationFiles on directory entries with their names spelled out: a
\* name is the sequence of its characters. The driver's extension is "sql".
Ext == <<".", "s", "q", "l">>

Tpl == <<".", "t", "p", "l">>

UpSuffix == <<".", "u", "p">>

DownSuffix == <<".", "d", "o", "w", "n">>

\* The entries a directory of the model can hold, each with what it is to be
\* parsed as (version 0 and direction "none": not a migration file).
Entries ==
    {[chars |-> <<"1", "_", "a">> \o UpSuffix \o Ext, version |-> 1, d |-> "up"],
     [chars |-> <<"1", "_", "a">> \o DownSuffix \o Ext, version |-> 1, d |-> "down"],
     [chars |-> <<"2", "_", "a">> \o UpSuffix \o Ext, version |-> 2, d |-> "up"],
     [chars |-> <<"2", "_", "a">> \o DownSuffix \o Ext, version |-> 2, d |-> "down"],
     [chars |-> <<"1", "_", "b">> \o UpSuffix \o Ext, version |-> 1, d |-> "up"],
     [chars |-> <<"0", "1", "_", "a">> \o DownSuffix \o Ext, version |-> 1, d |-> "down"],
     [chars |-> <<"2", "_", "a">> \o UpSuffix \o Ext \o Tpl, version |-> 2, d |-> "up"],
     [chars |-> <<"1", "_", "a">> \o Ext, version |-> 0, d |-> "none"],
     [chars |-> <<"1", "a">> \o UpSuffix \o Ext, version |-> 0, d |-> "none"],
     [chars |-> <<"a", "_", "1">> \o UpSuffix \o Ext, version |-> 0, d |-> "none"],
     [chars |-> <<"2", "_", "a">> \o UpSuffix \o Tpl, version |-> 0, d |-> "none"],
     [chars |-> <<"2", "_", "a">> \o DownSuffix, version |-> 0, d |-> "none"]}

EntryNames == {e.chars : e \in Entries}

\* The characters of the names in the order of their bytes.
Bytes == <<".", "0", "1", "2", "_", "a", "b", "d", "l", "n", "o", "p", "q",
           "s", "t", "u", "w">>

ByteOf(c) == CHOOSE i \in 1..Len(Bytes) : Bytes[i] = c

\* The order of strings: ioutil.ReadDir sorts the entries by name.
RECURSIVE StringLess(_, _)
StringLess(s, t) ==
    IF t = <<>> THEN FALSE
    ELSE IF s = <<>> THEN TRUE
    ELSE IF Head(s) # Head(t) THEN ByteOf(Head(s)) < ByteOf(Head(t))
    ELSE StringLess(Tail(s), Tail(t))

RECURSIVE ReadDirNames(_)
ReadDirNames(names) ==
    IF names = {} THEN <<>>
    ELSE LET first == CHOOSE s \in names :
                          \A t \in names \ {s} : StringLess(s, t)
         IN  <<first>> \o ReadDirNames(names \ {first})

HasSuffix(s, suffix) ==
    /\ Len(s) >= Len(suffix)
    /\ SubSeq(s, Len(s) - Len(suffix) + 1, Len(s)) = suffix

DropSuffix(s, suffix) == SubSeq(s, 1, Len(s) - Len(suffix))

IsDigit(c) == c \in {"0", "1", "2"}

\* The length of the longest prefix of digits.
RECURSIVE DigitRun(_)
DigitRun(s) ==
    IF s # <<>> /\ IsDigit(Head(s)) THEN 1 + DigitRun(Tail(s)) ELSE 0

\* strconv.ParseUint of a sequence of digits, base 10.
RECURSIVE ParseUint(_)
ParseUint(digits) ==
    IF digits = <<>> THEN 0
    ELSE 10 * ParseUint(SubSeq(digits, 1, Len(digits) - 1))
           + (ByteOf(digits[Len(digits)]) - ByteOf("0"))

\* parseFilenameSchema with ^([0-9]+)_(.*)\.(up|down)\.sql(?:\.tpl)?$ : the
\* name ends with the extension, with ".tpl" after it or not; before it
\* comes the direction; before that, the digits, "_" and the name.
ParseFilenameSchema(filename) ==
    LET failed == [err |-> TRUE, version |-> 0, name |-> <<>>, d |-> "none",
                   filename |-> filename]
        s1 == IF HasSuffix(filename, Ext \o Tpl)
              THEN DropSuffix(filename, Ext \o Tpl)
              ELSE IF HasSuffix(filename, Ext) THEN DropSuffix(filename, Ext)
              ELSE <<>>
        d  == IF HasSuffix(s1, UpSuffix) THEN "up"
              ELSE IF HasSuffix(s1, DownSuffix) THEN "down"
              ELSE "none"
        s2 == IF d = "up" THEN DropSuffix(s1, UpSuffix)
              ELSE IF d = "down" THEN DropSuffix(s1, DownSuffix)
              ELSE <<>>
        k  == DigitRun(s2)
    IN  IF d = "none" \/ k = 0 \/ Len(s2) < k + 1 THEN failed
        ELSE IF s2[k + 1] # "_" THEN failed
        ELSE [err |-> FALSE, version |-> ParseUint(SubSeq(s2, 1, k)),
              name |-> SubSeq(s2, k + 2, Len(s2)), d |-> d,
              filename |-> filename]

\* The first loop of ReadMigrationFiles without its duplicate test: the
\* entries that parse, in the order of ioFiles.
RECURSIVE ParsedFiles(_)
ParsedFiles(ioFiles) ==
    IF ioFiles = <<>> THEN <<>>
    ELSE LET p == ParseFilenameSchema(Head(ioFiles))
         IN  (IF p.err THEN <<>> ELSE <<p>>) \o ParsedFiles(Tail(ioFiles))

\* ReadMigrationFiles of a directory of names: [err, existing, file, files].
ReadMigrationFilesOfNames(names) ==
    LET tmpFiles == ParsedFiles(ReadDirNames(names))
        dup      == DuplicateAt(tmpFiles)
    IN  IF dup # 0
        THEN [err |-> "duplicate", existing |-> ExistingFor(tmpFiles, dup),
              file |-> tmpFiles[dup], files |-> <<>>]
        ELSE [err |-> "nil", existing |-> NoFile, file |-> NoFile,
              files |-> SortAsc(BuildMigrationFiles(tmpFiles, 1, {}))]

InitScan ==
    /\ dir = {}
    /\ applied = {}
    /\ preHook = FALSE
    /\ postHook = FALSE
    /\ locked = FALSE
    /\ fatalErr = NilErr
    /\ closed = FALSE
    /\ drvLock = FALSE
    /\ lockTask = "none"
    /\ ctx = "none"
    /\ pc = "idle"
    /\ frames = <<>>
    /\ queue = <<>>
    /\ err = NilErr
    /\ log = <<>>
    /\ op = Op("none", 0, 0)
    /\ appliedAtCall = applied
    /\ fatalAtCall = fatalErr
    /\ ctxAtCall = "none"
    /\ prev = NoPrev
    /\ peer = NoPeer
    /\ \E names \in SUBSET EntryNames : fcall = [NoCall EXCEPT !.arg = names]

\* file.ReadMigrationFiles(path, FilenameRegex("sql"))
ScanCall ==
    /\ fcall.fn = "none"
    /\ fcall' = [fcall EXCEPT !.fn = "ReadMigrationFiles",
                              !.out = ReadMigrationFilesOfNames(fcall.arg)]
    /\ UNCHANGED engine

NextScan == ScanCall

SpecScan == InitScan /\ [][NextScan]_vars

\* C25: for a directory in which no two files are of one version and
\* direction, the scan returns one MigrationFile per version found, in
\* strictly ascending order of version; its Up slot holds the Up file of the
\* version if there is one and is nil if not, likewise its Down slot, and
\* not both are nil; entries that do not match the pattern are in no slot.
C25_ScanResult ==
    LET found == {e \in Entries : e.chars \in fcall.arg /\ e.d # "none"}
        files == fcall.out.files
        Slot(file, v, d) ==
            LET of == {e \in found : e.version = v /\ e.d = d}
            IN  IF of = {} THEN file = NoFile
                ELSE /\ file # NoFile
                     /\ file.filename \in {e.chars : e \in of}
                     /\ file.version = v
                     /\ file.d = d
    IN  (/\ fcall.fn = "ReadMigrationFiles"
         /\ \A e, g \in found : (e.version = g.version /\ e.d = g.d) => e = g) =>
            /\ fcall.out.err = "nil"
            /\ {files[i].Version : i \in 1..Len(files)} = {e.version : e \in found}
            /\ \A i, j \in 1..Len(files) : i < j => files[i].Version < files[j].Version
            /\ \A i \in 1..Len(files) :
                  /\ Slot(files[i].UpFile, files[i].Version, "up")
                  /\ Slot(files[i].DownFile, files[i].Version, "down")
                  /\ files[i].UpFile # NoFile \/ files[i].DownFile # NoFile

\* A scan has returned two MigrationFiles, the first with both slots set,
\* of a directory that holds an entry that is not a migration file.
C25_Witness ==
    /\ fcall.fn = "ReadMigrationFiles"
    /\ fcall.out.err = "nil"
    /\ \E e \in Entries : e.chars \in fcall.arg /\ e.d = "none"
    /\ Len(fcall.out.files) = 2
    /\ fcall.out.files[1].UpFile # NoFile
    /\ fcall.out.files[1].DownFile # NoFile
    /\ fcall.out.files[2].UpFile = NoFile

\* ------------------------------------------------------------- Create
\* The width of file.Version in the model (a uint64 in the code).
UintBits == 2

Uint == 0..((2 ^ UintBits) - 1)

\* Creates of one behaviour.
MaxCreates == 2

\* time.Now().UTC().Format("20060102150405") parsed as a uint64: a timestamp
\* is in the lower half of the range of a uint64.
Clock == 0..(((2 ^ UintBits) \div 2) - 1)

\* The names Create is called with.
CreateNames == {"a", "b c"}

\* strings.Replace(name, " ", "_", -1) on the names of the model.
ReplaceSpaces(name) == IF name = "b c" THEN "b_c" ELSE name

\* Directories in which every version has its two files.
CreatedDirs ==
    {[version : S, name : {"a"}, d : {"up", "down"}] : S \in SUBSET Uint}

\* The version Create chooses: the current time, or latest + 1 (in the
\* width of a Version) when the latest version is not below it.
NewVersion(files, now) ==
    IF Len(files) > 0 /\ files[Len(files)].Version >= now
    THEN (files[Len(files)].Version + 1) % (2 ^ UintBits)
    ELSE now

\* The Create calls that have returned.
Creates == SelectSeq(log, LAMBDA e : e.call = "Create")

InitCreate ==
    /\ dir \in CreatedDirs
    /\ applied = {}
    /\ preHook = FALSE
    /\ postHook = FALSE
    /\ locked = FALSE
    /\ fatalErr = NilErr
    /\ closed = FALSE
    /\ drvLock = FALSE
    /\ lockTask = "none"
    /\ ctx = "none"
    /\ pc = "idle"
    /\ frames = <<>>
    /\ queue = <<>>
    /\ err = NilErr
    /\ log = <<>>
    /\ op = Op("none", 0, 0)
    /\ appliedAtCall = applied
    /\ fatalAtCall = fatalErr
    /\ ctxAtCall = "none"
    /\ prev = NoPrev
    /\ peer = NoPeer
    /\ fcall = NoCall

\* Handle.Create(name) at the time now: scans the directory, reads the
\* applied versions of the store, chooses the version, writes the Up file
\* and then the Down file. fcall.out is the calls this Create made, fcall.arg
\* the directory it found, fcall.mf the MigrationFile it returned.
Create(name, now, ioOk, versionsOk, upOk, downOk) ==
    LET r       == ReadMigrationFiles(dir)
        version == NewVersion(r.files, now)
        upFile   == [version |-> version, name |-> ReplaceSpaces(name), d |-> "up"]
        downFile == [version |-> version, name |-> ReplaceSpaces(name), d |-> "down"]
        mfile    == [Version |-> version, UpFile |-> upFile, DownFile |-> downFile]
        out ==
            IF ~ioOk THEN <<Event("ReadDir", NoFile, FALSE)>>
            ELSE IF r.err # "nil" THEN <<Event("ReadDir", NoFile, TRUE)>>
            ELSE IF ~versionsOk
            THEN <<Event("ReadDir", NoFile, TRUE), Event("Versions", NoFile, FALSE)>>
            ELSE <<Event("ReadDir", NoFile, TRUE), Event("Versions", NoFile, TRUE),
                   Event("WriteFile", upFile, upOk)>>
                 \o (IF upOk THEN <<Event("WriteFile", downFile, downOk)>> ELSE <<>>)
        e ==
            IF ~ioOk THEN Error("readdir")
            ELSE IF r.err # "nil" THEN DuplicateErr(r)
            ELSE IF ~versionsOk THEN Error("driver")
            ELSE IF ~upOk \/ ~downOk THEN Error("write")
            ELSE NilErr
    IN  /\ Len(Creates) < MaxCreates
        /\ now >= fcall.n
        /\ err' = e
        /\ dir' = dir \cup {o.file : o \in {out[i] : i \in 1..Len(out)} \cap
                                        {x \in {out[i] : i \in 1..Len(out)} :
                                            x.call = "WriteFile" /\ x.ok}}
        /\ log' = log \o out \o
                  <<Event("Create", IF e = NilErr THEN upFile ELSE NoFile, e = NilErr)>>
        /\ fcall' = [NoCall EXCEPT !.fn = "Create", !.n = now, !.arg = dir,
                                   !.out = out,
                                   !.mf = IF e = NilErr THEN <<mfile>> ELSE <<>>]
        /\ UNCHANGED <<applied, preHook, postHook, locked, fatalErr, closed,
                       drvLock, lockTask, ctx, pc, frames, queue, history, peer>>

NextCreate ==
    \E name \in CreateNames, now \in Clock,
       ioOk \in BOOLEAN, versionsOk \in BOOLEAN, upOk \in BOOLEAN, downOk \in BOOLEAN :
        Create(name, now, ioOk, versionsOk, upOk, downOk)

SpecCreate == InitCreate /\ [][NextCreate]_vars

\* C26: a Create that succeeds yields a version strictly greater than every
\* version of the directory it found, the versions of the successive
\* successful Creates are strictly increasing, and two successful Creates
\* leave four files on disk that were not there before.
C26_CreateStrictlyIncreasing ==
    LET ok == SelectSeq(Creates, LAMBDA e : e.ok)
    IN  /\ (fcall.fn = "Create" /\ err = NilErr) =>
               \A f \in fcall.arg : fcall.mf[1].Version > f.version
        /\ \A i, j \in 1..Len(ok) : i < j => ok[i].file.version < ok[j].file.version
        /\ (Len(ok) = 2 /\ Len(Creates) = 2) =>
               \E created \in SUBSET dir :
                   /\ Cardinality(created) = 4
                   /\ \A f \in created :
                          \E i \in 1..Len(log) :
                              log[i] = Event("WriteFile", f, TRUE)

\* C27: the calls a Create makes are the scan of the directory and the
\* writes of the two files; none of them is a call of the driver.
C27_CreateCallsNoDriver ==
    fcall.fn = "Create" =>
        \A i \in 1..Len(fcall.out) :
            fcall.out[i].call \notin
                {"Lock", "Unlock", "Versions", "Version", "Migrate", "Execute"}

\* ------------------------------------------- the directive script parser
\* The lines of the scripts of the model, without their newline.
LineEmpty == <<>>
LineBlank == <<" ">>
LineNotx == <<"-", "-", " ", "N", "O", "T", "X">>
LineNotxPlus == <<"-", "-", " ", "N", "O", "T", "X", ";">>
LineTxbegin == <<"-", "-", " ", "T", "X", "B", "E", "G", "I", "N">>
LineTxbeginPlus == <<"-", "-", " ", "T", "X", "B", "E", "G", "I", "N", ";">>
LineTxend == <<"-", "-", " ", "T", "X", "E", "N", "D">>
LineTxendPlus == <<"-", "-", " ", "T", "X", "E", "N", "D", ";">>
LineComment == <<"-", "-", " ", "c">>
LineStmt == <<"s", ";">>
LineStmtOpen == <<"t">>

\* The pieces scripts are made of: one line, or a block of a statement
\* between a TXBEGIN line and a TXEND line.
Chunks ==
    {<<LineEmpty>>, <<LineBlank>>, <<LineNotx>>, <<LineNotxPlus>>,
     <<LineTxbegin>>, <<LineTxbeginPlus>>, <<LineTxend>>, <<LineTxendPlus>>,
     <<LineComment>>, <<LineStmt>>, <<LineStmtOpen>>,
     <<LineTxbegin, LineStmt, LineTxend>>,
     <<LineTxbeginPlus, LineStmt, LineTxendPlus>>}

\* Chunks of one script.
MaxChunks == 3

\* The bytes of a file of the given lines, each line ended by a newline.
RECURSIVE FileOf(_)
FileOf(lines) ==
    IF lines = <<>> THEN <<>> ELSE Head(lines) \o <<"\n">> \o FileOf(Tail(lines))

RECURSIVE Concat(_)
Concat(chunks) ==
    IF chunks = <<>> THEN <<>> ELSE Head(chunks) \o Concat(Tail(chunks))

Scripts ==
    {FileOf(Concat(cs)) : cs \in UNION {[1..n -> Chunks] : n \in 0..MaxChunks}}

\* bytes.Split(b, []byte("\n"))
RECURSIVE Split(_, _)
Split(b, line) ==
    IF b = <<>> THEN <<line>>
    ELSE IF Head(b) = "\n" THEN <<line>> \o Split(Tail(b), <<>>)
    ELSE Split(Tail(b), Append(line, Head(b)))

IsSpace(c) == c \in {" ", "\t", "\r", "\n"}

\* bytes.TrimSpace
RECURSIVE TrimLeft(_)
TrimLeft(b) == IF b # <<>> /\ IsSpace(Head(b)) THEN TrimLeft(Tail(b)) ELSE b

RECURSIVE TrimRight(_)
TrimRight(b) ==
    IF b # <<>> /\ IsSpace(b[Len(b)]) THEN TrimRight(SubSeq(b, 1, Len(b) - 1)) ELSE b

TrimSpace(b) == TrimRight(TrimLeft(b))

HasPrefix(s, prefix) ==
    /\ Len(s) >= Len(prefix)
    /\ SubSeq(s, 1, Len(prefix)) = prefix

directiveNotx == <<"N", "O", "T", "X">>
directiveTxbegin == <<"T", "X", "B", "E", "G", "I", "N">>
directiveTxend == <<"T", "X", "E", "N", "D">>
directiveNoop == <<>>

CommentPrefix == <<"-", "-", " ">>

\* parseDirective: string(b[3 : len(b)-1]) of the trimmed line.
parseDirective(b) ==
    IF ~HasPrefix(TrimSpace(b), CommentPrefix) THEN directiveNoop
    ELSE SubSeq(TrimSpace(b), 4, Len(TrimSpace(b)) - 1)

\* Indices of lines are those of the code plus one: the line numbers.
\* scrollEmpty returns 0 where the code returns -1.
RECURSIVE scrollEmpty(_, _)
scrollEmpty(lines, i) ==
    IF i <= Len(lines) /\ Len(TrimSpace(lines[i])) = 0
    THEN scrollEmpty(lines, i + 1)
    ELSE IF i = Len(lines) /\ Len(TrimSpace(lines[i])) = 0 THEN 0 ELSE i

\* A migrationSegment without statements.
NoSegment ==
    [statements |-> <<>>, offsets |-> <<>>, tx |-> FALSE, txbegin |-> 0, txend |-> 0]

\* Mutant of StmtEnd: a statement ends on the line it starts on.
StmtEndSameLine(lines, i) == i

\* The line the loop of writeStmt stops at: the first line from i on that
\* ends with ";", len(lines) when there is none.
RECURSIVE StmtEnd(_, _)
StmtEnd(lines, i) ==
    IF i > Len(lines) THEN i
    ELSE IF HasSuffix(lines[i], <<";">>) THEN i
    ELSE StmtEnd(lines, i + 1)

\* writeStmt: [stmt, i]; a statement is the sequence of its lines, each of
\* which the code writes followed by a newline.
writeStmt(stmt, lines, i) ==
    LET first == scrollEmpty(lines, i)
        last  == StmtEnd(lines, first)
    IN  IF first < 1 THEN [stmt |-> stmt, i |-> Len(lines)]
        ELSE [stmt |-> [stmt EXCEPT
                          !.offsets = Append(@, first - 1),
                          !.statements =
                              Append(@, SubSeq(lines, first,
                                               IF last > Len(lines) THEN Len(lines)
                                               ELSE last))],
              i |-> last]

\* The loop of the TXBEGIN case, which starts at the TXBEGIN line.
RECURSIVE TxLoop(_, _, _)
TxLoop(lines, i, stmt) ==
    IF i > Len(lines) THEN [err |-> "nil", stmt |-> stmt, i |-> i]
    ELSE IF /\ parseDirective(lines[i]) # directiveNoop
            /\ parseDirective(lines[i]) # directiveTxend
    THEN [err |-> "expected", stmt |-> stmt, i |-> i]
    ELSE TxLoop(lines, writeStmt(stmt, lines, i).i + 1,
                writeStmt(stmt, lines, i).stmt)

\* No migration: what parseMigration returns with an error.
NoMigration == [noTx |-> FALSE, segments |-> <<>>]

\* The loop of parseMigration from line i on: [err, got, line, m].
RECURSIVE ParseFrom(_, _, _)
ParseFrom(lines, i, m) ==
    IF i > Len(lines)
    THEN [err |-> "nil", got |-> <<>>, line |-> 0, m |-> m]
    ELSE IF Len(TrimSpace(lines[i])) = 0 THEN ParseFrom(lines, i + 1, m)
    ELSE IF scrollEmpty(lines, i) < 1
    THEN [err |-> "nil", got |-> <<>>, line |-> 0, m |-> m]
    ELSE IF ~HasPrefix(TrimSpace(lines[scrollEmpty(lines, i)]), CommentPrefix)
    THEN LET w == writeStmt(NoSegment, lines, scrollEmpty(lines, i))
         IN  ParseFrom(lines, w.i + 1,
                       [m EXCEPT !.segments = Append(@, w.stmt)])
    ELSE LET j == scrollEmpty(lines, scrollEmpty(lines, i))
             directive == parseDirective(lines[j])
         IN  IF j < 1 THEN [err |-> "nil", got |-> <<>>, line |-> 0, m |-> m]
             ELSE IF directive = directiveNotx
             THEN ParseFrom(lines, j + 1, [m EXCEPT !.noTx = TRUE])
             ELSE IF directive = directiveTxbegin
             THEN LET t == TxLoop(lines, j,
                                  [NoSegment EXCEPT !.tx = TRUE, !.txbegin = j])
                  IN  IF t.err # "nil"
                      THEN [err |-> t.err, got |-> parseDirective(lines[t.i]),
                            line |-> t.i, m |-> NoMigration]
                      ELSE ParseFrom(lines, t.i + 1,
                                     [noTx |-> TRUE,
                                      segments |->
                                          Append(m.segments,
                                                 [t.stmt EXCEPT !.txend = t.i])])
             ELSE ParseFrom(lines, j + 1, m)

\* parseMigration(b)
parseMigration(b) == ParseFrom(Split(b, <<>>), 1, NoMigration)

\* A call of the database made by exec.
DbCall(call, stmt, line, ok) == [call |-> call, stmt |-> stmt, line |-> line, ok |-> ok]

\* Mutant of SegmentExecs: the line reported is the offset of the statement.
SegmentExecsZeroBased(seg) ==
    [k \in 1..Len(seg.statements) |->
        DbCall("Exec", seg.statements[k], seg.offsets[k], TRUE)]

\* The tx.Exec calls of a segment, with the line number of each statement.
SegmentExecs(seg) ==
    [k \in 1..Len(seg.statements) |->
        DbCall("Exec", seg.statements[k], seg.offsets[k] + 1, TRUE)]

RECURSIVE AllExecs(_)
AllExecs(segments) ==
    IF segments = <<>> THEN <<>>
    ELSE SegmentExecs(Head(segments)) \o AllExecs(Tail(segments))

\* The segments exec reaches with noTx set: it returns from inside the
\* first segment that has tx set.
FirstTx(segments) ==
    LET js == {j \in 1..Len(segments) : segments[j].tx}
    IN  IF js = {} THEN <<>>
        ELSE <<segments[CHOOSE j \in js : \A k \in js : j <= k]>>

\* The calls exec makes if none fails.
ExecCalls(m) ==
    IF ~m.noTx
    THEN <<DbCall("Begin", <<>>, 0, TRUE)>> \o AllExecs(m.segments)
         \o <<DbCall("Commit", <<>>, 0, TRUE)>>
    ELSE IF FirstTx(m.segments) = <<>> THEN <<>>
    ELSE <<DbCall("Begin", <<>>, 0, TRUE)>> \o SegmentExecs(FirstTx(m.segments)[1])
         \o <<DbCall("Commit", <<>>, 0, TRUE)>>

\* migration.exec(db) when the call number failAt fails (none for 0):
\* [err, line, stmt, calls]. The deferred function rolls back when exec
\* returns an error after Begin has succeeded.
exec(m, failAt) ==
    LET calls == ExecCalls(m)
    IN  IF failAt = 0 \/ failAt > Len(calls)
        THEN [err |-> "nil", line |-> 0, stmt |-> <<>>, calls |-> calls]
        ELSE LET failed == [calls[failAt] EXCEPT !.ok = FALSE]
                 made   == Append(SubSeq(calls, 1, failAt - 1), failed)
             IN  IF failed.call = "Begin"
                 THEN [err |-> "begin", line |-> 0, stmt |-> <<>>, calls |-> made]
                 ELSE [err |-> IF failed.call = "Exec" THEN "exec"
                               ELSE IF m.noTx THEN "commit lines" ELSE "commit",
                       line |-> failed.line, stmt |-> failed.stmt,
                       calls |-> Append(made, DbCall("Rollback", <<>>, 0, TRUE))]

InitParser ==
    /\ dir = {}
    /\ applied = {}
    /\ preHook = FALSE
    /\ postHook = FALSE
    /\ locked = FALSE
    /\ fatalErr = NilErr
    /\ closed = FALSE
    /\ drvLock = FALSE
    /\ lockTask = "none"
    /\ ctx = "none"
    /\ pc = "idle"
    /\ frames = <<>>
    /\ queue = <<>>
    /\ err = NilErr
    /\ log = <<>>
    /\ op = Op("none", 0, 0)
    /\ appliedAtCall = applied
    /\ fatalAtCall = fatalErr
    /\ ctxAtCall = "none"
    /\ prev = NoPrev
    /\ peer = NoPeer
    /\ \E b \in Scripts : fcall = [NoCall EXCEPT !.arg = b]

\* Driver.Migrate, first part: parseMigration(f.Content). fcall.arg is the
\* content of the file, fcall.out what parseMigration returned.
ParseMigration ==
    /\ pc = "idle"
    /\ fcall.fn = "none"
    /\ fcall' = [fcall EXCEPT !.fn = "parseMigration",
                              !.out = parseMigration(fcall.arg)]
    /\ err' = IF parseMigration(fcall.arg).err = "nil" THEN NilErr
              ELSE Error("failed to parse migration")
    /\ pc' = IF parseMigration(fcall.arg).err = "nil" THEN "exec" ELSE "ret"
    /\ UNCHANGED <<dir, applied, preHook, postHook, locked, fatalErr, closed,
                   drvLock, lockTask, ctx, frames, queue, log, history, peer>>

\* Driver.Migrate, second part: migration.exec(drv.db), in which the call
\* number failAt of the database fails (none for 0); log is the calls of
\* the database it made.
Exec ==
    /\ pc = "exec"
    /\ \E failAt \in 0..Len(ExecCalls(fcall.out.m)) :
          LET r == exec(fcall.out.m, failAt)
          IN  /\ log' = r.calls
              /\ err' = IF r.err = "nil" THEN NilErr
                        ELSE [kind |-> r.err, line |-> r.line, stmt |-> r.stmt]
    /\ pc' = "ret"
    /\ UNCHANGED <<dir, applied, preHook, postHook, locked, fatalErr, closed,
                   drvLock, lockTask, ctx, frames, queue, history, peer, fcall>>

NextParser ==
    \/ ParseMigration
    \/ Exec

SpecParser == InitParser /\ [][NextParser]_vars

\* The lines of the script that is parsed.
ScriptLines == Split(fcall.arg, <<>>)

\* The script has a line `-- NOTX` and no statement before the first one.
NotxBeforeFirstStatement ==
    \E i \in 1..Len(ScriptLines) :
        /\ ScriptLines[i] = LineNotx
        /\ \A j \in 1..(i - 1) :
              ScriptLines[j] \in {LineEmpty, LineBlank, LineComment, LineNotx}

\* The calls of the database are those of one transaction around all the
\* statements of the script.
WholeScriptTransaction ==
    \E failAt \in 0..(Len(AllExecs(fcall.out.m.segments)) + 2) :
        log = exec([noTx |-> FALSE, segments |-> fcall.out.m.segments], failAt).calls

\* C29: a script with a line `-- NOTX` before its first statement is parsed
\* with the no-transaction flag set, and its execution does not begin a
\* transaction around the whole script.
C29_NotxDisablesTransaction ==
    (fcall.fn = "parseMigration" /\ NotxBeforeFirstStatement) =>
        /\ fcall.out.err = "nil"
        /\ fcall.out.m.noTx
        /\ pc = "ret" => ~WholeScriptTransaction

\* The script is blocks `-- TXBEGIN`, statement, `-- TXEND`, one or more.
TxBlocksOnly ==
    \E n \in 1..MaxChunks :
        fcall.arg = FileOf(Concat([k \in 1..n |-> <<LineTxbegin, LineStmt, LineTxend>>]))

\* C30: a script of blocks of a statement between `-- TXBEGIN` and
\* `-- TXEND` is parsed without error into one transactional segment per
\* block, which holds the statement of the block, and each segment is
\* executed as a transaction of its own.
C30_TxBlocksAreSegments ==
    (fcall.fn = "parseMigration" /\ TxBlocksOnly) =>
        /\ fcall.out.err = "nil"
        /\ \A k \in 1..Len(fcall.out.m.segments) :
              /\ fcall.out.m.segments[k].tx
              /\ fcall.out.m.segments[k].statements = << <<LineStmt>> >>
        /\ 3 * Len(fcall.out.m.segments) + 1 = Len(ScriptLines)
        /\ (pc = "ret" /\ err = NilErr) =>
              log = Concat([k \in 1..Len(fcall.out.m.segments) |->
                              <<DbCall("Begin", <<>>, 0, TRUE),
                                DbCall("Exec", <<LineStmt>>, 3 * k - 1, TRUE),
                                DbCall("Commit", <<>>, 0, TRUE)>>])

\* The script is a NOTX line, in either spelling, followed by single-line
\* statements and blank lines only.
NotxAndStatementsOnly ==
    /\ Len(ScriptLines) >= 2
    /\ ScriptLines[1] \in {LineNotx, LineNotxPlus}
    /\ \A i \in 2..Len(ScriptLines) : ScriptLines[i] \in {LineStmt, LineEmpty, LineBlank}
    /\ \E i \in 2..Len(ScriptLines) : ScriptLines[i] = LineStmt

\* The Exec calls of the single-line statements among lines i.. of the
\* script, in the order of the script.
RECURSIVE StatementExecs(_)
StatementExecs(i) ==
    IF i > Len(ScriptLines) THEN <<>>
    ELSE (IF ScriptLines[i] = LineStmt
          THEN <<DbCall("Exec", <<LineStmt>>, i, TRUE)>> ELSE <<>>)
         \o StatementExecs(i + 1)

\* C31: when a script of a NOTX line and statements outside any block has
\* been executed without error, the calls of the database are one Exec per
\* statement, in the order of the script, and no Begin or Commit.
C31_NotxStatementsRunBare ==
    (pc = "ret" /\ fcall.out.err = "nil" /\ err = NilErr /\ NotxAndStatementsOnly) =>
        log = StatementExecs(1)

\* No line of the script is a directive, in any spelling.
NoDirectives ==
    \A i \in 1..Len(ScriptLines) :
        ScriptLines[i] \in {LineStmt, LineStmtOpen, LineEmpty, LineBlank, LineComment}

\* The statements of the script from line i on as the format defines them:
\* a statement starts at a line that is neither blank nor a comment and ends
\* at the first line from there that ends with ";", or at the end of the
\* input. Each is given as the Exec call that runs it.
RECURSIVE ScriptStatements(_)
ScriptStatements(i) ==
    IF i > Len(ScriptLines) THEN <<>>
    ELSE IF \/ Len(TrimSpace(ScriptLines[i])) = 0
            \/ HasPrefix(TrimSpace(ScriptLines[i]), CommentPrefix)
    THEN ScriptStatements(i + 1)
    ELSE LET ends == {j \in i..Len(ScriptLines) :
                        HasSuffix(ScriptLines[j], <<";">>)}
             last == IF ends = {} THEN Len(ScriptLines)
                     ELSE CHOOSE j \in ends : \A k \in ends : j <= k
         IN  <<DbCall("Exec", SubSeq(ScriptLines, i, last), i, TRUE)>>
             \o ScriptStatements(last + 1)

\* C32: a script without directives is executed as Begin, one Exec per
\* statement in order, Commit; a call that fails is the last but for the
\* Rollback that follows a failed Exec or Commit, so that Commit is called
\* only after every statement succeeded; the error of a failed Exec carries
\* the line number (from 1) of the first line of the statement and its text.
C32_DefaultTransaction ==
    LET expected == <<DbCall("Begin", <<>>, 0, TRUE)>> \o ScriptStatements(1)
                    \o <<DbCall("Commit", <<>>, 0, TRUE)>>
    IN  (pc = "ret" /\ fcall.out.err = "nil" /\ NoDirectives) =>
            IF err = NilErr THEN log = expected
            ELSE \E k \in 1..Len(expected) :
                    /\ SubSeq(log, 1, k) =
                          Append(SubSeq(expected, 1, k - 1),
                                 [expected[k] EXCEPT !.ok = FALSE])
                    /\ IF k = 1 THEN Len(log) = 1
                       ELSE /\ Len(log) = k + 1
                            /\ log[k + 1] = DbCall("Rollback", <<>>, 0, TRUE)
                    /\ expected[k].call = "Exec" =>
                          /\ err.kind = "exec"
                          /\ err.line = expected[k].line
                          /\ err.stmt = expected[k].stmt

\* The second statement of a script of two statements has failed, on line 3,
\* after the first succeeded, and the transaction is rolled back.
C32_Witness ==
    /\ pc = "ret"
    /\ NoDirectives
    /\ Len(log) = 4
    /\ log[2].call = "Exec" /\ log[2].ok
    /\ log[3].call = "Exec" /\ ~log[3].ok
    /\ log[4].call = "Rollback"
    /\ err.kind = "exec"
    /\ err.line = 3

\* The script is a NOTX line and two blocks of a statement between a
\* TXBEGIN line and a TXEND line, in the documented spelling or in the
\* spelling parseDirective recognises.
NotxTwoBlocks ==
    \/ fcall.arg = FileOf(<<LineNotx, LineTxbegin, LineStmt, LineTxend,
                            LineTxbegin, LineStmt, LineTxend>>)
    \/ fcall.arg = FileOf(<<LineNotxPlus, LineTxbeginPlus, LineStmt, LineTxendPlus,
                            LineTxbeginPlus, LineStmt, LineTxendPlus>>)

\* C33: a script of a NOTX line and two blocks is parsed without error and
\* executed as two transactions: Begin, Exec, Commit for block 1 and then
\* the same for block 2; when the statement of block 2 fails, the calls are
\* those of block 1 with its Commit, then Begin, the failed Exec, Rollback.
C33_BlocksAreIndependent ==
    LET block1 == <<DbCall("Begin", <<>>, 0, TRUE),
                    DbCall("Exec", <<LineStmt>>, 3, TRUE),
                    DbCall("Commit", <<>>, 0, TRUE)>>
    IN  (fcall.fn = "parseMigration" /\ NotxTwoBlocks) =>
            /\ fcall.out.err = "nil"
            /\ (pc = "ret" /\ err = NilErr) =>
                  log = block1 \o <<DbCall("Begin", <<>>, 0, TRUE),
                                    DbCall("Exec", <<LineStmt>>, 6, TRUE),
                                    DbCall("Commit", <<>>, 0, TRUE)>>
            /\ (pc = "ret" /\ \E i \in 1..Len(log) :
                                 log[i] = DbCall("Exec", <<LineStmt>>, 6, FALSE)) =>
                  log = block1 \o <<DbCall("Begin", <<>>, 0, TRUE),
                                    DbCall("Exec", <<LineStmt>>, 6, FALSE),
                                    DbCall("Rollback", <<>>, 0, TRUE)>>

\* C37: when parseMigration returns a migration, the statements of its
\* segments, in order, are the statements of the script: each starts at a
\* line that is neither blank nor a comment, ends at the first line from
\* there that ends with ";" or at the end of the input, and has the index
\* (from 0) of its first line as its offset; no blank line makes a
\* statement. parseMigration returns for every script, having read no line
\* outside the list (an index outside the list has no value).
C37_StatementsOfScript ==
    fcall.fn = "parseMigration" =>
        /\ fcall.out.err \in {"nil", "expected"}
        /\ fcall.out.err = "nil" =>
              /\ AllExecs(fcall.out.m.segments) = ScriptStatements(1)
              /\ \A k \in 1..Len(fcall.out.m.segments) :
                    LET seg == fcall.out.m.segments[k]
                    IN  /\ Len(seg.statements) = 1
                        /\ Len(seg.offsets) = 1
                        /\ seg.offsets[1] + 1 \in 1..Len(ScriptLines)
                        /\ seg.statements[1][1] = ScriptLines[seg.offsets[1] + 1]
                        /\ Len(TrimSpace(seg.statements[1][1])) > 0

\* A script of a statement, a blank line and a second statement has been
\* parsed into two statements, of offsets 0 and 2.
C37_Witness ==
    /\ fcall.fn = "parseMigration"
    /\ fcall.out.err = "nil"
    /\ ScriptLines = <<LineStmt, LineBlank, LineStmt, LineEmpty>>
    /\ Len(fcall.out.m.segments) = 2
    /\ fcall.out.m.segments[1].offsets = <<0>>
    /\ fcall.out.m.segments[1].statements = << <<LineStmt>> >>
    /\ fcall.out.m.segments[2].offsets = <<2>>

\* ---------------------------------------------- the drivers' Migrate
\* The rows of the versions table after the INSERT (Up) or DELETE (Down) of
\* the version of f, if the statement took effect, the rows as they were
\* if it did not (it failed, or its transaction was not committed).
BookkeepingAfter(rows, f, done) ==
    IF ~done THEN rows
    ELSE IF f.d = "up" THEN rows \cup {f.version}
    ELSE rows \ {f.version}

\* The INSERT of a version that has its row already fails (the version is
\* the primary key of the table).
InsertFails(rows, f) == f.d = "up" /\ f.version \in rows

\* The calls of calls up to the one that fails, which is marked.
MadeCalls(calls, failAt) ==
    IF failAt = 0 \/ failAt > Len(calls) THEN calls
    ELSE Append(SubSeq(calls, 1, failAt - 1), [calls[failAt] EXCEPT !.ok = FALSE])

\* Characters of the contents of the files given to the sqlite3 driver.
ContentChars == {"a", ";", " "}

\* The length of such a content.
MaxContent == 3

SqliteContents == UNION {[1..n -> ContentChars] : n \in 0..MaxContent}

\* strings.Split(in, ";")
RECURSIVE SplitSemicolon(_, _)
SplitSemicolon(in, q) ==
    IF in = <<>> THEN <<q>>
    ELSE IF Head(in) = ";" THEN <<q>> \o SplitSemicolon(Tail(in), <<>>)
    ELSE SplitSemicolon(Tail(in), Append(q, Head(in)))

\* The loop of splitStatements over the pieces.
RECURSIVE TrimmedStatements(_)
TrimmedStatements(qs) ==
    IF qs = <<>> THEN <<>>
    ELSE (IF TrimSpace(Head(qs)) # <<>>
          THEN <<Append(TrimSpace(Head(qs)), ";")>> ELSE <<>>)
         \o TrimmedStatements(Tail(qs))

\* splitStatements(in)
splitStatements(in) == TrimmedStatements(SplitSemicolon(in, <<>>))

\* The calls Migrate of the sqlite3 driver makes if none fails.
SqliteCalls(f, queries) ==
    <<DbCall("Begin", <<>>, 0, TRUE), DbCall("ExecVersion", <<>>, 0, TRUE),
      DbCall("ReadContent", <<>>, 0, TRUE)>>
    \o [k \in 1..Len(queries) |-> DbCall("Exec", queries[k], 0, TRUE)]
    \o <<DbCall("Commit", <<>>, 0, TRUE)>>

\* Migrate of the sqlite3 driver when its call number failAt fails (none
\* for 0): [err, calls, tx]. The deferred function rolls back if the err of
\* the function is set; the error of a query is held by an err of the if
\* statement and is returned without being assigned to it, as is the error
\* of Commit.
SqliteMigrateOf(f, queries, failAt) ==
    LET calls == SqliteCalls(f, queries)
        made  == MadeCalls(calls, failAt)
    IN  IF failAt = 0 THEN [err |-> "nil", calls |-> made, tx |-> "committed"]
        ELSE IF calls[failAt].call = "Begin"
        THEN [err |-> "begin", calls |-> made, tx |-> "none"]
        ELSE IF calls[failAt].call \in {"ExecVersion", "ReadContent"}
        THEN [err |-> calls[failAt].call,
              calls |-> Append(made, DbCall("Rollback", <<>>, 0, TRUE)),
              tx |-> "rolled back"]
        ELSE IF calls[failAt].call = "Exec"
        THEN [err |-> "query", calls |-> made, tx |-> "open"]
        ELSE [err |-> "commit", calls |-> made, tx |-> "commit failed"]

\* A driver that was opened, but for its connection of the lock.
DriverOpened ==
    /\ dir = {}
    /\ applied \in SUBSET VersionIds
    /\ preHook = FALSE
    /\ postHook = FALSE
    /\ locked = FALSE
    /\ fatalErr = NilErr
    /\ closed = FALSE
    /\ lockTask = "none"
    /\ ctx = "none"
    /\ pc = "idle"
    /\ frames = <<>>
    /\ queue = <<>>
    /\ err = NilErr
    /\ log = <<>>
    /\ op = Op("none", 0, 0)
    /\ appliedAtCall = applied
    /\ fatalAtCall = fatalErr
    /\ ctxAtCall = "none"
    /\ prev = NoPrev
    /\ peer = NoPeer

\* The sqlite3 driver that was opened; fcall.arg is the content of the
\* files it is given.
InitSqlite ==
    /\ DriverOpened
    /\ drvLock = FALSE
    /\ \E content \in SqliteContents : fcall = [NoCall EXCEPT !.arg = content]

\* What a Migrate of a driver leaves unchanged.
driverFrame == <<dir, preHook, postHook, locked, fatalErr, closed, drvLock,
                 lockTask, ctx, pc, frames, queue, op, fatalAtCall, ctxAtCall,
                 prev, peer>>

\* Driver.Migrate(f) of the sqlite3 driver, for a file of the given content,
\* in which any one call may fail. log is the calls it made, fcall.out the
\* state it left its transaction in.
SqliteMigrate(f, content) ==
    LET queries == splitStatements(content)
    IN  \E failAt \in 0..(Len(queries) + 4) :
            LET r == SqliteMigrateOf(f, queries, failAt)
            IN  /\ InsertFails(applied, f) => failAt \in {1, 2}
                /\ log' = r.calls
                /\ err' = IF r.err = "nil" THEN NilErr ELSE Error(r.err)
                /\ applied' = BookkeepingAfter(applied, f, r.tx = "committed")
                /\ appliedAtCall' = applied
                /\ fcall' = [NoCall EXCEPT !.fn = "sqlite3", !.mf = <<f>>,
                                           !.arg = content, !.out = r.tx]
                /\ UNCHANGED driverFrame

NextSqlite == \E f \in AllFiles : SqliteMigrate(f, fcall.arg)

SpecSqlite == InitSqlite /\ [][NextSqlite]_vars

\* C34: when Migrate of the sqlite3 driver has returned an error, it has
\* opened no transaction, or has rolled back the one it opened, or its
\* Commit has failed, so that none is left open, and the rows of the
\* versions table are those of before.
C34_SqliteRollsBack ==
    (fcall.fn = "sqlite3" /\ err # NilErr) =>
        /\ fcall.out \in {"none", "rolled back", "commit failed"}
        /\ \A i \in 1..Len(log) :
              (log[i].call = "Exec" /\ ~log[i].ok) =>
                  log[Len(log)] = DbCall("Rollback", <<>>, 0, TRUE)
        /\ applied = appliedAtCall

\* The contents of the files given to the MySQL driver: no statement, one
\* statement, two statements, a statement under a NOTX line, a block.
MysqlScripts ==
    {FileOf(lines) : lines \in
        {<<>>, <<LineStmt>>, <<LineStmt, LineBlank, LineStmt>>,
         <<LineNotx, LineStmt>>, <<LineNotxPlus, LineStmt>>,
         <<LineTxbegin, LineStmt, LineTxend>>,
         <<LineTxbeginPlus, LineStmt, LineTxendPlus>>}}

\* Migrate of the MySQL driver when its call number failAt fails (none for
\* 0), of the calls ReadContent, those of exec, and the INSERT or DELETE of
\* the version on the connection of the lock: [err, calls, updated].
MysqlMigrateOf(f, content, failAt) ==
    LET parsed == parseMigration(content)
        n      == IF parsed.err = "nil" THEN Len(ExecCalls(parsed.m)) ELSE 0
        read   == DbCall("ReadContent", <<>>, 0, failAt # 1)
        update == DbCall("ExecVersion", <<>>, 0, failAt # n + 2)
    IN  IF failAt = 1
        THEN [err |-> "ReadContent", calls |-> <<read>>, updated |-> FALSE]
        ELSE IF parsed.err # "nil"
        THEN [err |-> "failed to parse migration", calls |-> <<read>>,
              updated |-> FALSE]
        ELSE IF failAt \in 2..(n + 1)
        THEN [err |-> exec(parsed.m, failAt - 1).err,
              calls |-> <<read>> \o exec(parsed.m, failAt - 1).calls,
              updated |-> FALSE]
        ELSE [err |-> IF update.ok THEN "nil"
                      ELSE "applied, but failed to update schema_migrations",
              calls |-> <<read>> \o exec(parsed.m, 0).calls \o <<update>>,
              updated |-> update.ok]

\* Driver.Migrate(f) of the MySQL driver. log is the calls it made, fcall.out
\* what parseMigration makes of the content.
MysqlMigrate(f, content, failAt) ==
    LET r == IF drvLock THEN MysqlMigrateOf(f, content, failAt)
             ELSE [err |-> "migrate must call Lock before Migrate",
                   calls |-> <<>>, updated |-> FALSE]
        parsed == parseMigration(content)
        last == IF ~drvLock THEN 0
                ELSE IF parsed.err = "nil" THEN Len(ExecCalls(parsed.m)) + 2
                ELSE 1
    IN  /\ failAt \in 0..last
        /\ (drvLock /\ InsertFails(applied, f) /\ parsed.err = "nil") => failAt # 0
        /\ log' = r.calls
        /\ err' = IF r.err = "nil" THEN NilErr ELSE Error(r.err)
        /\ applied' = BookkeepingAfter(applied, f, r.updated)
        /\ appliedAtCall' = applied
        /\ fcall' = [NoCall EXCEPT !.fn = "mysql", !.mf = <<f>>, !.arg = content,
                                   !.out = parsed]
        /\ UNCHANGED driverFrame

\* The MySQL driver that was opened; drvLock stands for its versionConn,
\* which its Lock and its Versions set up.
InitMysql ==
    /\ DriverOpened
    /\ drvLock \in BOOLEAN
    /\ \E content \in MysqlScripts : fcall = [NoCall EXCEPT !.arg = content]

NextMysql == \E f \in AllFiles, failAt \in 0..5 : MysqlMigrate(f, fcall.arg, failAt)

SpecMysql == InitMysql /\ [][NextMysql]_vars

\* C35: after a Migrate of the MySQL driver of a script that does not
\* disable the transaction, the transaction of the script is committed and
\* the row of the version is inserted (Up) or deleted (Down), or the
\* transaction is not committed and the rows of the versions table are
\* those of before.
C35_MysqlAtomic ==
    LET committed == \E i \in 1..Len(log) : log[i] = DbCall("Commit", <<>>, 0, TRUE)
    IN  (fcall.fn = "mysql" /\ ~fcall.out.m.noTx) =>
            \/ /\ committed
               /\ applied = BookkeepingAfter(appliedAtCall, fcall.mf[1], TRUE)
               /\ log[Len(log)] = DbCall("ExecVersion", <<>>, 0, TRUE)
            \/ /\ ~committed
               /\ applied = appliedAtCall
               /\ \A i \in 1..Len(log) : log[i].call # "ExecVersion"

\* txDisabledOption
OptionWord ==
    <<"d", "i", "s", "a", "b", "l", "e", "_", "d", "d", "l", "_",
      "t", "r", "a", "n", "s", "a", "c", "t", "i", "o", "n">>

\* The contents of the files given to the PostgreSQL driver: a statement;
\* the option line and a statement; the option after another word; a
\* comment and a statement; the option on the second line; the option
\* without the blank after the dashes.
PostgresContents ==
    {FileOf(lines) : lines \in
        {<<LineStmt>>,
         <<CommentPrefix \o OptionWord, LineStmt>>,
         <<CommentPrefix \o <<"x", " ">> \o OptionWord, LineStmt>>,
         <<LineComment, LineStmt>>,
         <<LineStmt, CommentPrefix \o OptionWord>>,
         <<<<"-", "-">> \o OptionWord, LineStmt>>}}

\* strings.Split(opts, " ")
RECURSIVE SplitBlank(_, _)
SplitBlank(in, word) ==
    IF in = <<>> THEN <<word>>
    ELSE IF Head(in) = " " THEN <<word>> \o SplitBlank(Tail(in), <<>>)
    ELSE SplitBlank(Tail(in), Append(word, Head(in)))

\* fileOptions(content): the options of the first line of the content.
fileOptions(content) ==
    LET firstLine == Split(content, <<>>)[1]
    IN  IF ~HasPrefix(firstLine, CommentPrefix) THEN <<>>
        ELSE SplitBlank(SubSeq(firstLine, Len(CommentPrefix) + 1, Len(firstLine)), <<>>)

\* txDisabled(opts)
txDisabled(opts) == \E i \in 1..Len(opts) : opts[i] = OptionWord

\* The contents for which txDisabled(fileOptions(f.Content)) holds.
TxDisabledContents == {c \in PostgresContents : txDisabled(fileOptions(c))}

\* The calls Migrate of the PostgreSQL driver makes if none fails; the
\* content is executed by db.Exec when the transaction is disabled, by
\* tx.Exec when not.
PostgresCalls(f, content) ==
    <<DbCall("Begin", <<>>, 0, TRUE), DbCall("ExecVersion", <<>>, 0, TRUE),
      DbCall("ReadContent", <<>>, 0, TRUE),
      DbCall(IF content \in TxDisabledContents THEN "db.Exec" ELSE "tx.Exec",
             content, 0, TRUE),
      DbCall("Commit", <<>>, 0, TRUE)>>

\* Mutant of PostgresMigrateOf: the INSERT or DELETE of the version is
\* committed although the transaction was rolled back.
PostgresMigrateOfAutocommit(f, content, failAt, pqError) ==
    LET calls == PostgresCalls(f, content)
        made  == MadeCalls(calls, failAt)
    IN  IF failAt = 0
        THEN [err |-> "nil", calls |-> made, committed |-> TRUE, panic |-> FALSE]
        ELSE IF failAt = 1
        THEN [err |-> "begin", calls |-> made, committed |-> FALSE, panic |-> FALSE]
        ELSE [err |-> calls[failAt].call,
              calls |-> Append(made, DbCall("Rollback", <<>>, 0, TRUE)),
              committed |-> failAt > 2,
              panic |-> failAt = 4 /\ ~pqError]

\* Migrate of the PostgreSQL driver when its call number failAt fails (none
\* for 0): [err, calls, committed, panic]. err is the result of the
\* function, so the deferred function rolls back whenever an error is
\* returned after Begin. The error of the content is asserted to be a
\* *pq.Error: the function panics when it is not (pqError is false), and the
\* deferred function, which runs then too, finds err set.
PostgresMigrateOf(f, content, failAt, pqError) ==
    LET calls == PostgresCalls(f, content)
        made  == MadeCalls(calls, failAt)
    IN  IF failAt = 0
        THEN [err |-> "nil", calls |-> made, committed |-> TRUE, panic |-> FALSE]
        ELSE IF failAt = 1
        THEN [err |-> "begin", calls |-> made, committed |-> FALSE, panic |-> FALSE]
        ELSE [err |-> calls[failAt].call,
              calls |-> Append(made, DbCall("Rollback", <<>>, 0, TRUE)),
              committed |-> FALSE,
              panic |-> failAt = 4 /\ ~pqError]

\* The PostgreSQL driver that was opened.
InitPostgres ==
    /\ DriverOpened
    /\ drvLock = FALSE
    /\ \E content \in PostgresContents : fcall = [NoCall EXCEPT !.arg = content]

\* Driver.Migrate(f) of the PostgreSQL driver. log is the calls it made;
\* fcall.out says that the content disables the transaction, fcall.panic
\* that Migrate panicked instead of returning.
PostgresMigrate(f, content, failAt, pqError) ==
    LET r == PostgresMigrateOf(f, content, failAt, pqError)
    IN  /\ InsertFails(applied, f) => failAt \in {1, 2}
        /\ (failAt # 4) => pqError
        /\ log' = r.calls
        /\ err' = IF r.err = "nil" THEN NilErr ELSE Error(r.err)
        /\ applied' = BookkeepingAfter(applied, f, r.committed)
        /\ appliedAtCall' = applied
        /\ fcall' = [NoCall EXCEPT !.fn = "postgres", !.mf = <<f>>, !.arg = content,
                                   !.out = content \in TxDisabledContents,
                                   !.panic = r.panic]
        /\ UNCHANGED driverFrame

NextPostgres ==
    \E f \in AllFiles, failAt \in 0..5, pqError \in BOOLEAN :
        PostgresMigrate(f, fcall.arg, failAt, pqError)

SpecPostgres == InitPostgres /\ [][NextPostgres]_vars

\* C36: when Migrate of the PostgreSQL driver has returned an error, the
\* rows of the versions table are those of before the call: the version of
\* a failed Up that was not applied is not in Versions(), the version of a
\* failed Down that was applied is in Versions(); this also for a file
\* whose first line has the option disable_ddl_transaction.
C36_PostgresBookkeepingUnchanged ==
    (fcall.fn = "postgres" /\ err # NilErr /\ ~fcall.panic) =>
        /\ applied = appliedAtCall
        /\ (fcall.mf[1].d = "up" /\ fcall.mf[1].version \notin appliedAtCall) =>
              ~Contains(DrvVersions(applied), fcall.mf[1].version)
        /\ (fcall.mf[1].d = "down" /\ fcall.mf[1].version \in appliedAtCall) =>
              Contains(DrvVersions(applied), fcall.mf[1].version)

\* An Up of a version that was not applied, of a file with the option, has
\* failed in the db.Exec of the content, after its INSERT succeeded.
C36_Witness ==
    /\ fcall.fn = "postgres"
    /\ err # NilErr
    /\ ~fcall.panic
    /\ fcall.mf[1].d = "up"
    /\ fcall.mf[1].version \notin appliedAtCall
    /\ fcall.out
    /\ Len(log) = 5
    /\ log[2] = DbCall("ExecVersion", <<>>, 0, TRUE)
    /\ log[4].call = "db.Exec" /\ ~log[4].ok
    /\ log[5].call = "Rollback"

\* C38: when no operation is running on a Handle that is not Poisoned, the
\* advisory lock of the driver is not held for it; the lock-held flag is
\* false then.
C38_NoLockHeldWhenIdle ==
    (pc = "idle" /\ fatalErr = NilErr) => (~drvLock /\ ~locked)

\* C39: every call of the driver's Migrate, of the pre-hook and of the
\* post-hook is made in a state in which the lock-held flag is true, the
\* fatal error is unset and the advisory lock is held: the driver's Lock
\* succeeded before in the operation and its Unlock was not called since.
C39_StepsOnlyUnderLock ==
    [][(/\ Len(log') = Len(log) + 1
        /\ log'[Len(log')].call \in {"Migrate", "preHook", "postHook"}) =>
           /\ locked
           /\ fatalErr = NilErr
           /\ drvLock
           /\ \E i \in Calls("Lock") : log[i].ok
           /\ Calls("Unlock") = {}]_vars

\* The post-hook was called for the second file of the second call of a
\* Redo, under the lock of the Redo.
C39_Witness ==
    /\ Len(frames) = 2
    /\ frames[1].op.name = "Redo"
    /\ log # <<>>
    /\ log[Len(log)].call = "postHook"
    /\ Cardinality(Calls("Migrate")) = 2
    /\ locked
    /\ drvLock

\* C40: in a Version, a Versions or a PendingMigrations, up to its return,
\* with or without an error, the driver's Migrate and Execute and the hooks
\* are not called, and the applied versions of the store are those of the
\* call.
C40_ReadOnlyOperations ==
    op.name \in {"Version", "Versions", "PendingMigrations"} =>
        /\ Calls("Migrate") = {}
        /\ Calls("Execute") = {}
        /\ Calls("preHook") = {}
        /\ Calls("postHook") = {}
        /\ applied = appliedAtCall

\* A PendingMigrations has returned without error on a Handle with hooks,
\* an Up file of the directory not being applied.
C40_Witness ==
    /\ op.name = "PendingMigrations"
    /\ pc = "done"
    /\ err = NilErr
    /\ preHook
    /\ postHook
    /\ Calls("Versions") # {}
    /\ \E f \in dir : f.d = "up" /\ f.version \notin applied
====
